---- MODULE Spec2Model ----
(***************************************************************************)
(* A model of the ActionSpec deployment orchestrator (the spec-applier     *)
(* Lambda handler), its security wrapper, the source-control client it     *)
(* drives, statement by statement, and the destructive-change detector.    *)
(* Two requests run concurrently against one remote repository.            *)
(*                                                                         *)
(* Texts are tuples of one-character strings, so that substring tests are  *)
(* computed and not assumed.  An exception is a record [kind, text]: kind  *)
(* is the Python class that was raised, text stands for str(e).            *)
(***************************************************************************)
EXTENDS Integers, Sequences, FiniteSets, TLC

VARIABLES
    pc,             \* pc[r]: the statement request r is about to execute
    req,            \* req[r]: the request-body fields read in step 1
    log,            \* log[r]: the stages request r has entered, with their outcome
    branch_name,    \* branch_name[r]: the handler's local branch_name
    warnings,       \* warnings[r]: the handler's local warnings
    pr_info,        \* pr_info[r]: the handler's local pr_info
    response,       \* response[r]: the responses returned to the caller of r
    branches,       \* remote: the names of the refs under refs/heads
    commits,        \* remote: the commits written, in order
    prs,            \* remote: the pull requests
    labelled,       \* remote: the pull requests that had labels attached
    faulty,         \* remote: whether the remote and the secret store may fail
    ghClient,       \* process: the lru_cache slot of get_github_client
    environment,    \* process: os.environ["ENVIRONMENT"]
    allowed_repos,  \* process: os.environ["ALLOWED_REPOS"], split
    cpc,            \* cpc[c]: the statement of the client caller c is about to execute
    call,           \* call[c]: the client operation caller c runs, with its locals
    events,         \* events[c]: what the operation of c did so far, in order: checks,
                    \* reads of the secret, remote calls, sleeps, its return or raise
    cache,          \* process: the handle in the lru_cache slot, 0 for none
    remote,         \* remote: the secret and the reads of it, the handles issued,
                    \* the file on the branch, the labels defined and attached
    budget,         \* the client operations the process may still start
    old_spec,       \* the previously validated spec given to the change detector
    new_spec,       \* the new spec given to the change detector
    detected,       \* the list check_destructive_changes returned
    dpc,            \* the position of the comparison: drawn or done
    document,       \* the text given to parse_and_validate
    ppc,            \* the statement of the parser that runs next
    steps,          \* what the parser did to the text so far, in order
    result          \* what parse_and_validate returned

\* The state of the orchestrator and the state of the client seen by itself
handlerVars == <<pc, req, log, branch_name, warnings, pr_info, response,
                 branches, commits, prs, labelled, ghClient, environment>>
clientVars == <<cpc, call, events, cache, remote, budget>>
detectVars == <<old_spec, new_spec, detected, dpc>>
parseVars == <<document, ppc, steps, result>>
\* What a step of the client leaves alone
beyondClient == <<handlerVars, faulty, allowed_repos, detectVars, parseVars>>

vars == <<pc, req, log, branch_name, warnings, pr_info, response,
          branches, commits, prs, labelled, faulty, ghClient, environment,
          allowed_repos, cpc, call, events, cache, remote, budget,
          old_spec, new_spec, detected, dpc, document, ppc, steps, result>>

----------------------------------------------------------------------------
(* Bounds and program constants *)

\* The clock values time.time() may return while the requests run.
MaxClock == 2

\* The client operations a process runs, and the versions the secret goes through.
MaxOps == 2
MaxSecret == 2

MAX_RETRIES == 3
INITIAL_BACKOFF == 1
BACKOFF_MULTIPLIER == 2
MAX_DOC_SIZE == 1048576
SUFFIX_MIN == 1000
SUFFIX_MAX == 9999

\* The two concurrent requests.
Reqs == {1, 2}

Timestamps == 1..MaxClock

\* random.randint(1000, 9999): both ends of the range.
SuffixSamples == {SUFFIX_MIN, SUFFIX_MAX}

NoBranch == <<>>

\* f"action-spec-update-{timestamp}" and f"action-spec-update-{timestamp}-{suffix}":
\* a name is the pair of its timestamp and its suffix, 0 for no suffix.
TimestampName(timestamp) == <<timestamp, 0>>
SuffixedName(timestamp, suffix) == <<timestamp, suffix>>

----------------------------------------------------------------------------
(* Texts *)

\* Python's `sub in s` on strings.
Contains(s, sub) ==
    \E i \in 1..(Len(s) - Len(sub) + 1) :
        \A j \in 1..Len(sub) : s[i + j - 1] = sub[j]

GoodRepo == <<"o", "/", "r">>
OtherRepo == <<"x", "/", "y">>
BadRepo == <<"o", "r">>
Repos == {GoodRepo, OtherRepo, BadRepo}

GoodPath == <<"s", ".", "y">>
Paths == {GoodPath, <<".", ".", "/", "s">>, <<"a", ".", "\\", "s">>}

\* str(e): the message of an exception of class kind, as opposed to every fixed
\* wording of the handler
Str(kind) == <<"str(e)", kind>>
NoText == <<>>

----------------------------------------------------------------------------
(* Exceptions *)

NoExc == "none"

\* class X(GitHubError): every class of the client's own hierarchy.
GitHubErrorClasses ==
    {"GitHubError", "AuthenticationError", "RateLimitError",
     "RepositoryNotFoundError", "FileNotFoundError", "BranchExistsError",
     "PullRequestExistsError", "BranchNotFoundError",
     "PullRequestNotFoundError", "LabelNotFoundError"}

\* isinstance(e, GitHubError)
IsGitHubError(kind) == kind \in GitHubErrorClasses

\* What a failed remote call raises when the client does not translate it:
\* PyGithub's UnknownObjectException (a 404), another GithubException, or an
\* exception of the transport, which is no GithubException.
Raw(answer) ==
    CASE answer = "unknown" -> "UnknownObjectException"
      [] answer = "github_error" -> "GithubException"
      [] OTHER -> "ConnectionError"

----------------------------------------------------------------------------
(* Spec parser: parse_yaml, validate_schema, parse_and_validate, parse_spec *)

dangerous_tags == {"!!python/object", "!!python/name", "!!python/module"}

\* A spec text, by what the parser reads of it: its length, the tag markers that
\* occur in it, what yaml.safe_load makes of it, and the number of messages
\* schema validation produces for the parsed document.
SpecTexts ==
    [size : {64, MAX_DOC_SIZE, MAX_DOC_SIZE + 1},
     tags : {{}, {"!!python/object"}},
     yaml : {"syntax_error", "slow", "empty", "scalar", "mapping"},
     violations : 0..1]

parse_yaml(yaml_content) ==
    IF yaml_content.size > MAX_DOC_SIZE THEN "SecurityError"
    ELSE IF yaml_content.tags \cap dangerous_tags # {} THEN "SecurityError"
    ELSE CASE yaml_content.yaml = "syntax_error" -> "ParseError"
           [] yaml_content.yaml = "slow" -> "SecurityError"
           [] yaml_content.yaml = "empty" -> "ParseError"
           [] yaml_content.yaml = "scalar" -> "ParseError"
           [] OTHER -> NoExc

\* (len(errors) == 0, errors), the errors by their number
validate_schema(yaml_content) ==
    [is_valid |-> yaml_content.violations = 0, errors |-> yaml_content.violations]

parse_and_validate(yaml_content) ==
    IF parse_yaml(yaml_content) # NoExc
    THEN [is_valid |-> FALSE, has_spec |-> FALSE, errors |-> 1]
    ELSE [is_valid |-> validate_schema(yaml_content).is_valid,
          has_spec |-> validate_schema(yaml_content).is_valid,
          errors |-> validate_schema(yaml_content).errors]

\* parse_spec: raises ValidationError when the text is not valid
parse_spec(yaml_content) ==
    IF ~parse_and_validate(yaml_content).is_valid THEN "ValidationError" ELSE NoExc

\* The parser statement by statement.  A text is what the parser reads of it:
\* its length in characters, the bytes a character takes in UTF-8, the tag
\* markers that occur in it, what yaml.safe_load makes of it, and the schema
\* violations of the parsed document.
ParseTexts ==
    {t \in [chars : {0, 64, MAX_DOC_SIZE \div 2 + 1, MAX_DOC_SIZE, MAX_DOC_SIZE + 1},
            width : {1, 2},
            tags : {{}, {"!!python/object"}, {"!!python/module"},
                    {"!!python/name", "!!python/module"}},
            yaml : {"syntax_error", "slow", "empty", "scalar", "mapping"},
            violations : 0..2] :
        /\ t.chars = 0 => (t.yaml = "empty" /\ t.tags = {})
        /\ t.yaml # "mapping" => t.violations = 0}

\* len(yaml_content): the number of characters of a str
LenOf(text) == text.chars

\* len(yaml_content.encode("utf-8"))
ByteSize(text) == text.chars * text.width

\* dangerous_tags, in the order of the list
dangerous_tag_list == <<"!!python/object", "!!python/name", "!!python/module">>

\* The first tag of the list that occurs in the text
FirstTag(text) ==
    dangerous_tag_list[CHOOSE i \in DOMAIN dangerous_tag_list :
                           /\ dangerous_tag_list[i] \in text.tags
                           /\ \A j \in 1..(i - 1) : dangerous_tag_list[j] \notin text.tags]

\* str(e) of a SecurityError or ParseError, by its parts
SecurityError(message, pattern) ==
    [kind |-> "SecurityError", message |-> message, pattern |-> pattern]
ParseError(message) == [kind |-> "ParseError", message |-> message, pattern |-> "none"]

NoParse == [is_valid |-> FALSE, spec |-> "none", errors |-> <<>>]

ParseIdle ==
    /\ document = [chars |-> 0, width |-> 1, tags |-> {}, yaml |-> "empty",
                       violations |-> 0]
    /\ ppc = "off"
    /\ steps = <<>>
    /\ result = NoParse

beyondParse == <<handlerVars, faulty, allowed_repos, clientVars, detectVars>>

\* The parser did `step` and goes on to statement `to`
ParserGoes(step, to) ==
    /\ steps' = Append(steps, step)
    /\ ppc' = to
    /\ UNCHANGED <<document, result, beyondParse>>

\* parse_yaml raised e: except (ParseError, SecurityError) returns (False, {}, [str(e)])
ParserRaises(step, e) ==
    /\ steps' = Append(steps, step)
    /\ ppc' = "done"
    /\ result' = [is_valid |-> FALSE, spec |-> "empty", errors |-> <<e>>]
    /\ UNCHANGED <<document, beyondParse>>

\* if len(yaml_content) > MAX_DOC_SIZE: raise SecurityError(..., pattern="oversized")
CheckSize ==
    /\ ppc = "size"
    /\ IF LenOf(document) > MAX_DOC_SIZE
       THEN ParserRaises("size_check", SecurityError("Document too large", "oversized"))
       ELSE ParserGoes("size_check", "tags")

\* for tag in dangerous_tags: if tag in yaml_content: raise SecurityError(..., pattern=tag)
ScanTags ==
    /\ ppc = "tags"
    /\ IF document.tags \cap dangerous_tags # {}
       THEN ParserRaises("tag_scan",
                         SecurityError("Dangerous YAML tag detected", FirstTag(document)))
       ELSE ParserGoes("tag_scan", "load")

\* yaml.safe_load and the checks on what it returned
SafeLoad ==
    /\ ppc = "load"
    /\ CASE document.yaml = "syntax_error" ->
                ParserRaises("safe_load", ParseError("str(YAMLError)"))
         [] document.yaml = "slow" ->
                ParserRaises("safe_load", SecurityError("Parsing timeout", "timeout"))
         [] document.yaml = "empty" ->
                ParserRaises("safe_load", ParseError("Empty document"))
         [] document.yaml = "scalar" ->
                ParserRaises("safe_load", ParseError("Root must be object"))
         [] OTHER -> ParserGoes("safe_load", "schema")

IterErrors_always_spec ==
    /\ ppc = "schema"
    /\ steps' = Append(steps, "iter_errors")
    /\ ppc' = "done"
    /\ result' = [is_valid |-> document.violations = 0,
                  spec |-> "parsed",
                  errors |-> [i \in 1..document.violations |-> "violation"]]
    /\ UNCHANGED <<document, beyondParse>>

\* validate_schema: one message at least for every violation; then
\* (is_valid, spec if is_valid else {}, errors)
IterErrors ==
    /\ ppc = "schema"
    /\ steps' = Append(steps, "iter_errors")
    /\ ppc' = "done"
    /\ result' = [is_valid |-> document.violations = 0,
                  spec |-> IF document.violations = 0 THEN "parsed" ELSE "empty",
                  errors |-> [i \in 1..document.violations |-> "violation"]]
    /\ UNCHANGED <<document, beyondParse>>

----------------------------------------------------------------------------
(* Source-control client *)

\* Mutant: the membership test is skipped, the list is only logged
validate_repository_whitelist_open(repo_name) ==
    IF ~Contains(repo_name, <<"/">>) THEN "ValueError" ELSE NoExc

validate_repository_whitelist(repo_name) ==
    IF ~Contains(repo_name, <<"/">>) THEN "ValueError"
    ELSE IF allowed_repos = <<>> THEN NoExc
    ELSE IF ~(\E i \in DOMAIN allowed_repos : allowed_repos[i] = repo_name)
         THEN "RepositoryNotFoundError"
    ELSE NoExc

\* What the secret store and the token check may answer; with the handle cached
\* neither is asked.
AuthAnswers(cached) ==
    IF cached THEN {"ok"}
    ELSE {"ok"} \cup (IF faulty
                      THEN {"no_env", "ssm_not_found", "ssm_error", "bad_credentials",
                            "client_error"}
                      ELSE {})

get_github_client(cached, auth) ==
    IF cached THEN NoExc
    ELSE IF auth = "ok" THEN NoExc
    ELSE "AuthenticationError"

\* The client's rejections before it reaches the remote
ClientPrelude(repo_name, cached, auth) ==
    IF validate_repository_whitelist(repo_name) # NoExc
    THEN validate_repository_whitelist(repo_name)
    ELSE get_github_client(cached, auth)

\* The handle is in the cache after a call that authenticated
HandleAfter(exc_before_auth, cached, auth) ==
    cached \/ (exc_before_auth = NoExc /\ auth = "ok")

\* client.get_repo(repo_name) in the write operations: only a 404 is translated
get_repo(answer) ==
    CASE answer = "ok" -> NoExc
      [] answer = "unknown" -> "RepositoryNotFoundError"
      [] OTHER -> Raw(answer)

RECURSIVE FetchLoop(_, _, _)
\* for attempt in range(MAX_RETRIES + 1): ...
FetchLoop(attempts, attempt, rate_limit_query) ==
    IF attempt > MAX_RETRIES THEN "GitHubError"
    ELSE CASE attempts[attempt + 1] = "content" -> NoExc
           [] attempts[attempt + 1] = "rate_limit" ->
                IF attempt < MAX_RETRIES
                THEN FetchLoop(attempts, attempt + 1, rate_limit_query)
                ELSE IF rate_limit_query = "ok" THEN "RateLimitError"
                ELSE Raw(rate_limit_query)
           [] attempts[attempt + 1] = "repo_unknown" -> "RepositoryNotFoundError"
           [] attempts[attempt + 1] = "file_unknown" -> "FileNotFoundError"
           [] attempts[attempt + 1] = "directory" -> "FileNotFoundError"
           [] OTHER -> "GitHubError"

TraversalCheck(file_path) ==
    IF Contains(file_path, <<".", ".", "/">>) \/ Contains(file_path, <<".", "\\">>)
    THEN "ValueError"
    ELSE NoExc

FetchPrelude(repo_name, file_path) ==
    IF validate_repository_whitelist(repo_name) # NoExc
    THEN validate_repository_whitelist(repo_name)
    ELSE TraversalCheck(file_path)

fetch_spec_file(repo_name, file_path, cached, ans) ==
    IF FetchPrelude(repo_name, file_path) # NoExc THEN FetchPrelude(repo_name, file_path)
    ELSE IF get_github_client(cached, ans.auth) # NoExc
         THEN get_github_client(cached, ans.auth)
    ELSE FetchLoop(ans.attempts, 0, ans.rate_limit_query)

create_branch(repo_name, cached, ans) ==
    IF ClientPrelude(repo_name, cached, ans.auth) # NoExc
    THEN ClientPrelude(repo_name, cached, ans.auth)
    ELSE IF get_repo(ans.get_repo) # NoExc THEN get_repo(ans.get_repo)
    ELSE IF ans.get_git_ref # "ok" THEN get_repo(ans.get_git_ref)
    ELSE CASE ans.create_git_ref = "created" -> NoExc
           [] ans.create_git_ref = "already_exists" -> "BranchExistsError"
           [] ans.create_git_ref = "github_error" -> "GitHubError"
           [] OTHER -> Raw(ans.create_git_ref)

\* Mutant: the update branch lacks its return and runs on into the create
commit_file_change_fallthrough(repo_name, cached, ans) ==
    IF ClientPrelude(repo_name, cached, ans.auth) # NoExc
    THEN [exc |-> ClientPrelude(repo_name, cached, ans.auth), writes |-> <<>>]
    ELSE IF get_repo(ans.get_repo) # NoExc
         THEN [exc |-> get_repo(ans.get_repo), writes |-> <<>>]
    ELSE IF ans.get_contents = "ok" /\ ans.update_file = "ok"
         THEN IF ans.create_file = "ok"
              THEN [exc |-> NoExc, writes |-> <<"update", "create">>]
              ELSE [exc |-> Raw(ans.create_file), writes |-> <<"update">>]
    ELSE IF ans.get_contents = "ok" /\ ans.update_file # "unknown"
         THEN [exc |-> Raw(ans.update_file), writes |-> <<>>]
    ELSE IF ans.get_contents \in {"ok", "unknown"}
         THEN IF ans.create_file = "ok"
              THEN [exc |-> NoExc, writes |-> <<"create">>]
              ELSE [exc |-> Raw(ans.create_file), writes |-> <<>>]
    ELSE [exc |-> Raw(ans.get_contents), writes |-> <<>>]

\* [exc, writes]: writes are the writes the remote accepted, each one a commit
commit_file_change(repo_name, cached, ans) ==
    IF ClientPrelude(repo_name, cached, ans.auth) # NoExc
    THEN [exc |-> ClientPrelude(repo_name, cached, ans.auth), writes |-> <<>>]
    ELSE IF get_repo(ans.get_repo) # NoExc
         THEN [exc |-> get_repo(ans.get_repo), writes |-> <<>>]
    ELSE IF ans.get_contents = "ok" /\ ans.update_file = "ok"
         THEN [exc |-> NoExc, writes |-> <<"update">>]
    ELSE IF ans.get_contents = "ok" /\ ans.update_file # "unknown"
         THEN [exc |-> Raw(ans.update_file), writes |-> <<>>]
    ELSE IF ans.get_contents \in {"ok", "unknown"}
         THEN IF ans.create_file = "ok"
              THEN [exc |-> NoExc, writes |-> <<"create">>]
              ELSE [exc |-> Raw(ans.create_file), writes |-> <<>>]
    ELSE [exc |-> Raw(ans.get_contents), writes |-> <<>>]

create_pull_request(repo_name, cached, ans) ==
    IF ClientPrelude(repo_name, cached, ans.auth) # NoExc
    THEN ClientPrelude(repo_name, cached, ans.auth)
    ELSE IF get_repo(ans.get_repo) # NoExc THEN get_repo(ans.get_repo)
    ELSE CASE ans.create_pull = "created" -> NoExc
           [] ans.create_pull = "already_exists" -> "PullRequestExistsError"
           [] ans.create_pull = "not_found" -> "BranchNotFoundError"
           [] ans.create_pull = "github_error" -> "GitHubError"
           [] OTHER -> Raw(ans.create_pull)

add_pr_labels(repo_name, cached, ans) ==
    IF ClientPrelude(repo_name, cached, ans.auth) # NoExc
    THEN ClientPrelude(repo_name, cached, ans.auth)
    ELSE IF get_repo(ans.get_repo) # NoExc THEN get_repo(ans.get_repo)
    ELSE IF ans.get_issue = "unknown" THEN "PullRequestNotFoundError"
    ELSE IF ans.get_issue # "ok" THEN Raw(ans.get_issue)
    ELSE IF ans.get_labels # "ok" THEN Raw(ans.get_labels)
    ELSE IF ans.create_label # "ok" THEN Raw(ans.create_label)
    ELSE IF ans.add_to_labels # "ok" THEN Raw(ans.add_to_labels)
    ELSE NoExc

----------------------------------------------------------------------------
(* What the remote may answer *)

\* Failure answers occur only in a run whose remote is faulty.
Faults(answers) == IF faulty THEN answers ELSE {}

CallFailures == Faults({"unknown", "github_error"})
CallAnswers == {"ok"} \cup CallFailures

\* Only GoodRepo exists on the remote.
RepoAnswers(repo_name) ==
    IF repo_name = GoodRepo THEN CallAnswers ELSE {"unknown"} \cup CallFailures

AttemptAnswers(repo_name) ==
    IF repo_name = GoodRepo
    THEN {"content"} \cup Faults({"repo_unknown", "file_unknown", "directory", "error"})
    ELSE {"repo_unknown"} \cup Faults({"error"})

\* rate_limited rate-limit responses, then the answer `final` on every later attempt
AttemptSeq(rate_limited, final) ==
    [i \in 1..(MAX_RETRIES + 1) |-> IF i <= rate_limited THEN "rate_limit" ELSE final]

FetchAnswers(repo_name, cached) ==
    [auth : AuthAnswers(cached),
     attempts : {AttemptSeq(k, f) : k \in (IF faulty THEN 0..(MAX_RETRIES + 1) ELSE {0}),
                                    f \in AttemptAnswers(repo_name)},
     rate_limit_query : {"ok"} \cup Faults({"github_error"})]

\* The remote creates a ref only under a name that is free.
RefAnswers(name) ==
    (IF name \in branches THEN {"already_exists"} ELSE {"created"})
    \cup Faults({"github_error", "transport_error"})

BranchAnswers(repo_name, cached, name) ==
    [auth : AuthAnswers(cached), get_repo : RepoAnswers(repo_name),
     get_git_ref : CallAnswers, create_git_ref : RefAnswers(name)]

CommitAnswers(repo_name, cached) ==
    [auth : AuthAnswers(cached), get_repo : RepoAnswers(repo_name),
     get_contents : CallAnswers, update_file : CallAnswers, create_file : CallAnswers]

\* The remote opens one pull request per head; somebody else may have opened one
\* from this head in the meantime.
PullAnswers(head) ==
    (IF \E p \in prs : p.head = head THEN {"already_exists"}
     ELSE IF head \notin branches THEN {"not_found"}
     ELSE {"created"} \cup Faults({"already_exists"}))
    \cup Faults({"github_error", "transport_error"})

PullRequestAnswers(repo_name, cached, head) ==
    [auth : AuthAnswers(cached), get_repo : RepoAnswers(repo_name),
     create_pull : PullAnswers(head)]

\* The calls of add_pr_labels run one after the other: the first failure ends it.
LabelCalls == {"get_repo", "get_issue", "get_labels", "create_label", "add_to_labels"}

LabelAnswers(repo_name, cached) ==
    {[auth |-> "ok", get_repo |-> "ok", get_issue |-> "ok", get_labels |-> "ok",
      create_label |-> "ok", add_to_labels |-> "ok"]}
    \cup {[c \in LabelCalls \cup {"auth"} |->
              IF c = fk[1] THEN fk[2] ELSE "ok"] : fk \in LabelCalls \X CallFailures}

----------------------------------------------------------------------------
(* The source-control client, statement by statement *)

\* The threads of the process that call the client.
Callers == {1, 2}

Ops == {"fetch_spec_file", "create_branch", "commit_file_change",
        "create_pull_request", "add_pr_labels"}

\* The label names a caller may pass, and the lists of them (no name twice)
LabelLists == {<<"a", "b">>, <<"b", "a">>, <<"b">>}
DefinedLabels == {"b"}
DEFAULT_COLOR == <<"e", "4", "e", "6", "6", "9">>

\* rate_limit.core.reset.timestamp() - time.time(), truncated by int()
ResetDelays == {0 - 2, 0, 5}

RECURSIVE Pow(_, _)
Pow(b, e) == IF e = 0 THEN 1 ELSE b * Pow(b, e - 1)

NoHandle == [serial |-> 0, token |-> 0]
NoResult == [exc |-> "pending", value |-> <<>>]
NoCall == [op |-> "none", n |-> 0, repo_name |-> <<>>, file_path |-> <<>>,
           labels |-> <<>>, attempt |-> 0, client |-> NoHandle, token |-> 0,
           existing_labels |-> {}, index |-> 0, result |-> NoResult]

ClientIdle ==
    /\ cpc = [c \in Callers |-> "idle"]
    /\ call = [c \in Callers |-> NoCall]
    /\ events = [c \in Callers |-> <<>>]
    /\ cache = NoHandle
    /\ remote = [secret |-> 1, reads |-> 0, handles |-> 0, file |-> FALSE,
                 labels |-> DefinedLabels, attached |-> <<>>]
    /\ budget = 0

Event(c, kind, arg) == [kind |-> kind, arg |-> arg]

\* Caller c goes on to statement `to` having done evs
Goes(c, to, evs) ==
    /\ cpc' = [cpc EXCEPT ![c] = to]
    /\ events' = [events EXCEPT ![c] = @ \o evs]
    /\ UNCHANGED beyondClient

\* The operation of caller c ends: it raises exc or, with NoExc, returns value
Ends(c, evs, exc, value) ==
    /\ cpc' = [cpc EXCEPT ![c] = "idle"]
    /\ call' = [call EXCEPT ![c].result = [exc |-> exc, value |-> value]]
    /\ events' = [events EXCEPT ![c] =
                    @ \o evs \o <<Event(c, IF exc = NoExc THEN "return" ELSE "raise", exc)>>]
    /\ UNCHANGED beyondClient

\* A caller enters one of the operations ops with its arguments
InvokeOp(c, ops) ==
    /\ cpc[c] = "idle"
    /\ budget > 0
    /\ budget' = budget - 1
    /\ \E op \in ops, repo_name \in Repos, file_path \in Paths, labels \in LabelLists :
          /\ op # "fetch_spec_file" => file_path = GoodPath
          /\ op # "add_pr_labels" => labels = <<"b">>
          /\ call' = [call EXCEPT ![c] =
                        [NoCall EXCEPT !.op = op, !.n = MaxOps - budget + 1,
                                       !.repo_name = repo_name,
                                       !.file_path = file_path, !.labels = labels]]
    /\ cpc' = [cpc EXCEPT ![c] = "validate"]
    /\ events' = [events EXCEPT ![c] = <<>>]
    /\ UNCHANGED <<cache, remote>>
    /\ UNCHANGED beyondClient

Invoke(c) == InvokeOp(c, Ops)

\* _validate_repository_whitelist(repo_name) and, in fetch_spec_file, the
\* traversal check: the first statements of every operation
ValidateRepository(c) ==
    /\ cpc[c] = "validate"
    /\ LET exc == IF call[c].op = "fetch_spec_file"
                  THEN FetchPrelude(call[c].repo_name, call[c].file_path)
                  ELSE validate_repository_whitelist(call[c].repo_name)
           ev == <<Event(c, "validate", call[c].repo_name)>>
       IN IF exc = NoExc
          THEN Goes(c, "get_github_client", ev) /\ UNCHANGED call
          ELSE Ends(c, ev, exc, <<>>)
    /\ UNCHANGED <<cache, remote, budget>>

\* Mutant: get_github_client without @lru_cache
LookupCache_uncached(c) ==
    /\ cpc[c] = "get_github_client"
    /\ Goes(c, "get_parameter", <<>>)
    /\ UNCHANGED <<call, cache, remote, budget>>

\* get_github_client(): the lru_cache wrapper looks the handle up
LookupCache(c) ==
    /\ cpc[c] = "get_github_client"
    /\ IF cache # NoHandle
       THEN /\ call' = [call EXCEPT ![c].client = cache]
            /\ Goes(c, "remote", <<>>)
       ELSE /\ Goes(c, "get_parameter", <<>>)
            /\ UNCHANGED call
    /\ UNCHANGED <<cache, remote, budget>>

\* The body of get_github_client up to the token: the parameter name from the
\* environment, then ssm.get_parameter
ReadSecret(c) ==
    /\ cpc[c] = "get_parameter"
    /\ \E answer \in {"ok"} \cup Faults({"no_env", "ssm_not_found", "ssm_error"}) :
          CASE answer = "ok" ->
                 /\ call' = [call EXCEPT ![c].token = remote.secret]
                 /\ remote' = [remote EXCEPT !.reads = @ + 1]
                 /\ Goes(c, "authenticate", <<Event(c, "get_parameter", remote.secret)>>)
            [] answer = "no_env" ->
                 /\ Ends(c, <<>>, get_github_client(FALSE, answer), <<>>)
                 /\ UNCHANGED remote
            [] OTHER ->
                 /\ Ends(c, <<Event(c, "get_parameter", answer)>>,
                         get_github_client(FALSE, answer), <<>>)
                 /\ UNCHANGED remote
    /\ UNCHANGED <<cache, budget>>

\* Github(token), client.get_rate_limit(), return client; the lru_cache wrapper
\* stores the result unless the slot was filled during the call
Authenticate(c) ==
    /\ cpc[c] = "authenticate"
    /\ \E answer \in {"ok"} \cup Faults({"bad_credentials", "client_error"}) :
          LET ev == <<Event(c, "get_rate_limit", answer)>>
              made == [serial |-> remote.handles + 1, token |-> call[c].token]
          IN IF answer = "ok"
             THEN /\ call' = [call EXCEPT ![c].client = made]
                  /\ cache' = IF cache = NoHandle THEN made ELSE cache
                  /\ remote' = [remote EXCEPT !.handles = @ + 1]
                  /\ Goes(c, "remote", ev)
             ELSE /\ Ends(c, ev, get_github_client(FALSE, answer), <<>>)
                  /\ UNCHANGED <<cache, remote>>
    /\ UNCHANGED budget

\* Somebody rotates the secret in the secret store
RotateSecret ==
    /\ remote.secret < MaxSecret
    /\ remote' = [remote EXCEPT !.secret = @ + 1]
    /\ UNCHANGED <<cpc, call, events, cache, budget>>
    /\ UNCHANGED beyondClient

\* Mutant: the loop runs range(MAX_RETRIES + 2), one more pass before it gives up
FetchAttempt_extra_pass(c) ==
    /\ cpc[c] = "remote" /\ call[c].op = "fetch_spec_file"
    /\ \E answer \in AttemptAnswers(call[c].repo_name) \cup Faults({"rate_limit"}) :
          LET asked == IF answer = "repo_unknown"
                       THEN <<Event(c, "get_repo", <<call[c].attempt, answer>>)>>
                       ELSE <<Event(c, "get_repo", <<call[c].attempt, "ok">>),
                              Event(c, "get_contents", <<call[c].attempt, answer>>)>>
              exc == FetchLoop([i \in 1..(MAX_RETRIES + 2) |-> answer], 0, "ok")
          IN IF answer = "rate_limit"
             THEN /\ Goes(c, IF call[c].attempt < MAX_RETRIES + 1 THEN "sleep"
                             ELSE "get_rate_limit", asked)
                  /\ UNCHANGED call
             ELSE Ends(c, asked, exc,
                       IF exc = NoExc THEN <<"content", call[c].attempt>> ELSE <<>>)
    /\ UNCHANGED <<cache, remote, budget>>

\* Mutant: the except clause for rate limits catches every remote error
FetchAttempt_retry_errors(c) ==
    /\ cpc[c] = "remote" /\ call[c].op = "fetch_spec_file"
    /\ \E answer \in AttemptAnswers(call[c].repo_name) \cup Faults({"rate_limit"}) :
          LET asked == IF answer = "repo_unknown"
                       THEN <<Event(c, "get_repo", <<call[c].attempt, answer>>)>>
                       ELSE <<Event(c, "get_repo", <<call[c].attempt, "ok">>),
                              Event(c, "get_contents", <<call[c].attempt, answer>>)>>
              exc == FetchLoop([i \in 1..(MAX_RETRIES + 1) |-> answer], call[c].attempt, "ok")
          IN IF answer \in {"rate_limit", "error"}
             THEN /\ Goes(c, IF call[c].attempt < MAX_RETRIES THEN "sleep"
                             ELSE "get_rate_limit", asked)
                  /\ UNCHANGED call
             ELSE Ends(c, asked, exc,
                       IF exc = NoExc THEN <<"content", call[c].attempt>> ELSE <<>>)
    /\ UNCHANGED <<cache, remote, budget>>

\* One pass of the retry loop of fetch_spec_file: client.get_repo and
\* repo.get_contents, and what the except clauses make of the answer
FetchAttempt(c) ==
    /\ cpc[c] = "remote" /\ call[c].op = "fetch_spec_file"
    /\ \E answer \in AttemptAnswers(call[c].repo_name) \cup Faults({"rate_limit"}) :
          LET asked == IF answer = "repo_unknown"
                       THEN <<Event(c, "get_repo", <<call[c].attempt, answer>>)>>
                       ELSE <<Event(c, "get_repo", <<call[c].attempt, "ok">>),
                              Event(c, "get_contents", <<call[c].attempt, answer>>)>>
              exc == FetchLoop([i \in 1..(MAX_RETRIES + 1) |-> answer], call[c].attempt, "ok")
          IN IF answer = "rate_limit"
             THEN /\ Goes(c, IF call[c].attempt < MAX_RETRIES THEN "sleep"
                             ELSE "get_rate_limit", asked)
                  /\ UNCHANGED call
             ELSE Ends(c, asked, exc,
                       IF exc = NoExc THEN <<"content", call[c].attempt>> ELSE <<>>)
    /\ UNCHANGED <<cache, remote, budget>>

\* Mutant: the exponent is the number of the retry, not of the failed attempt
Backoff_next_power(c) ==
    /\ cpc[c] = "sleep"
    /\ call' = [call EXCEPT ![c].attempt = @ + 1]
    /\ Goes(c, "remote",
            <<Event(c, "sleep",
                    INITIAL_BACKOFF * Pow(BACKOFF_MULTIPLIER, call[c].attempt + 1))>>)
    /\ UNCHANGED <<cache, remote, budget>>

\* time.sleep(backoff), then the next pass of the loop
Backoff(c) ==
    /\ cpc[c] = "sleep"
    /\ call' = [call EXCEPT ![c].attempt = @ + 1]
    /\ Goes(c, "remote",
            <<Event(c, "sleep", INITIAL_BACKOFF * Pow(BACKOFF_MULTIPLIER, call[c].attempt))>>)
    /\ UNCHANGED <<cache, remote, budget>>

\* The last pass was rate-limited: client.get_rate_limit() for the reset time
QueryReset(c) ==
    /\ cpc[c] = "get_rate_limit"
    /\ \E answer \in {"ok"} \cup Faults({"github_error"}), delay \in ResetDelays :
          /\ answer # "ok" => delay = 0
          /\ Ends(c, <<Event(c, "get_rate_limit", answer)>>,
                  FetchLoop(AttemptSeq(MAX_RETRIES + 1, "content"), MAX_RETRIES, answer),
                  IF answer = "ok" THEN <<"retry_after", IF delay > 0 THEN delay ELSE 0>>
                  ELSE <<>>)
    /\ UNCHANGED <<cache, remote, budget>>

\* The statement after client.get_repo in each of the write operations
AfterRepo(op) ==
    CASE op = "create_branch" -> "get_git_ref"
      [] op = "commit_file_change" -> "get_contents"
      [] op = "create_pull_request" -> "create_pull"
      [] OTHER -> "get_issue"

\* client.get_repo(repo_name) in the write operations
GetRepo(c) ==
    /\ cpc[c] = "remote" /\ call[c].op # "fetch_spec_file"
    /\ \E answer \in RepoAnswers(call[c].repo_name) :
          LET ev == <<Event(c, "get_repo", answer)>>
          IN IF answer = "ok"
             THEN Goes(c, AfterRepo(call[c].op), ev) /\ UNCHANGED call
             ELSE Ends(c, ev, get_repo(answer), <<>>)
    /\ UNCHANGED <<cache, remote, budget>>

\* create_branch: repo.get_git_ref for the base, then repo.create_git_ref
CreateRef(c) ==
    /\ cpc[c] = "get_git_ref"
    /\ \E base \in CallAnswers,
          made \in {"created", "already_exists"} \cup Faults({"github_error"}) :
          /\ base # "ok" => made = "created"
          /\ Ends(c, <<Event(c, "get_git_ref", base)>>
                     \o (IF base = "ok" THEN <<Event(c, "create_git_ref", made)>> ELSE <<>>),
                  create_branch(call[c].repo_name, TRUE,
                                [auth |-> "ok", get_repo |-> "ok", get_git_ref |-> base,
                                 create_git_ref |-> made]),
                  <<>>)
    /\ UNCHANGED <<cache, remote, budget>>

\* create_pull_request: repo.create_pull
CreatePull(c) ==
    /\ cpc[c] = "create_pull"
    /\ \E answer \in {"created"} \cup Faults({"already_exists", "not_found", "github_error"}) :
          Ends(c, <<Event(c, "create_pull", answer)>>,
               create_pull_request(call[c].repo_name, TRUE,
                                   [auth |-> "ok", get_repo |-> "ok", create_pull |-> answer]),
               <<>>)
    /\ UNCHANGED <<cache, remote, budget>>

\* commit_file_change: repo.get_contents(file_path, ref=branch_name) for the sha
ReadFile(c) ==
    /\ cpc[c] = "get_contents"
    /\ \E answer \in {IF remote.file THEN "ok" ELSE "unknown"} \cup Faults({"github_error"}) :
          LET ev == <<Event(c, "get_contents", answer)>>
          IN CASE answer = "ok" -> Goes(c, "update_file", ev) /\ UNCHANGED call
               [] answer = "unknown" -> Goes(c, "create_file", ev) /\ UNCHANGED call
               [] OTHER -> Ends(c, ev, Raw(answer), <<>>)
    /\ UNCHANGED <<cache, remote, budget>>

\* repo.update_file(...) in the try block, return result["commit"].sha
UpdateFile(c) ==
    /\ cpc[c] = "update_file"
    /\ \E answer \in CallAnswers :
          LET ev == <<Event(c, "update_file", answer)>>
          IN CASE answer = "ok" -> Ends(c, ev, NoExc, <<"commit", "update">>)
               [] answer = "unknown" -> Goes(c, "create_file", ev) /\ UNCHANGED call
               [] OTHER -> Ends(c, ev, Raw(answer), <<>>)
    /\ UNCHANGED <<cache, remote, budget>>

\* except UnknownObjectException: repo.create_file(...), return result["commit"].sha
CreateFile(c) ==
    /\ cpc[c] = "create_file"
    /\ \E answer \in CallAnswers :
          LET ev == <<Event(c, "create_file", answer)>>
          IN IF answer = "ok"
             THEN /\ Ends(c, ev, NoExc, <<"commit", "create">>)
                  /\ remote' = [remote EXCEPT !.file = TRUE]
             ELSE /\ Ends(c, ev, Raw(answer), <<>>)
                  /\ UNCHANGED remote
    /\ UNCHANGED <<cache, budget>>

\* add_pr_labels: repo.get_issue(pr_number)
GetIssue(c) ==
    /\ cpc[c] = "get_issue"
    /\ \E answer \in CallAnswers :
          LET ev == <<Event(c, "get_issue", answer)>>
          IN IF answer = "ok"
             THEN Goes(c, "get_labels", ev) /\ UNCHANGED call
             ELSE Ends(c, ev,
                       add_pr_labels(call[c].repo_name, TRUE,
                                     [auth |-> "ok", get_repo |-> "ok", get_issue |-> answer,
                                      get_labels |-> "ok", create_label |-> "ok",
                                      add_to_labels |-> "ok"]),
                       <<>>)
    /\ UNCHANGED <<cache, remote, budget>>

\* existing_labels = {label.name for label in repo.get_labels()}
GetLabels(c) ==
    /\ cpc[c] = "get_labels"
    /\ \E answer \in CallAnswers :
          LET ev == <<Event(c, "get_labels", answer)>>
          IN IF answer = "ok"
             THEN /\ call' = [call EXCEPT ![c].existing_labels = remote.labels,
                                          ![c].index = 0]
                  /\ Goes(c, "for_label", ev)
             ELSE Ends(c, ev, Raw(answer), <<>>)
    /\ UNCHANGED <<cache, remote, budget>>

\* Mutant: the loop creates every given label, defined or not
CreateMissingLabel_every(c) ==
    /\ cpc[c] = "for_label"
    /\ IF call[c].index = Len(call[c].labels)
       THEN /\ Goes(c, "add_to_labels", <<>>)
            /\ UNCHANGED <<call, remote>>
       ELSE LET label_name == call[c].labels[call[c].index + 1]
            IN \E answer \in CallAnswers :
                  LET ev == <<Event(c, "create_label", <<label_name, DEFAULT_COLOR>>)>>
                  IN IF answer = "ok"
                     THEN /\ call' = [call EXCEPT ![c].index = @ + 1]
                          /\ remote' = [remote EXCEPT !.labels = @ \cup {label_name}]
                          /\ Goes(c, "for_label", ev)
                     ELSE /\ Ends(c, ev, Raw(answer), <<>>)
                          /\ UNCHANGED remote
    /\ UNCHANGED <<cache, budget>>

\* for label_name in labels: if label_name not in existing_labels:
\*     repo.create_label(label_name, "e4e669")
CreateMissingLabel(c) ==
    /\ cpc[c] = "for_label"
    /\ IF call[c].index = Len(call[c].labels)
       THEN /\ Goes(c, "add_to_labels", <<>>)
            /\ UNCHANGED <<call, remote>>
       ELSE LET label_name == call[c].labels[call[c].index + 1]
            IN IF label_name \in call[c].existing_labels
               THEN /\ call' = [call EXCEPT ![c].index = @ + 1]
                    /\ Goes(c, "for_label", <<>>)
                    /\ UNCHANGED remote
               ELSE \E answer \in CallAnswers :
                       LET ev == <<Event(c, "create_label", <<label_name, DEFAULT_COLOR>>)>>
                       IN IF answer = "ok"
                          THEN /\ call' = [call EXCEPT ![c].index = @ + 1]
                               /\ remote' = [remote EXCEPT !.labels = @ \cup {label_name}]
                               /\ Goes(c, "for_label", ev)
                          ELSE /\ Ends(c, ev, Raw(answer), <<>>)
                               /\ UNCHANGED remote
    /\ UNCHANGED <<cache, budget>>

\* issue.add_to_labels(*labels)
AttachLabels(c) ==
    /\ cpc[c] = "add_to_labels"
    /\ \E answer \in CallAnswers :
          LET ev == <<Event(c, "add_to_labels", call[c].labels)>>
          IN IF answer = "ok"
             THEN /\ remote' = [remote EXCEPT !.attached = @ \o call[c].labels]
                  /\ Ends(c, ev, NoExc, <<>>)
             ELSE /\ Ends(c, ev, Raw(answer), <<>>)
                  /\ UNCHANGED remote
    /\ UNCHANGED <<cache, budget>>

\* The handle: the steps every operation takes before it reaches the remote
Acquire(c) ==
    \/ ValidateRepository(c)
    \/ LookupCache(c)
    \/ ReadSecret(c)
    \/ Authenticate(c)

\* The step of caller c in one of the five operations
Operate(c) ==
    \/ FetchAttempt(c)
    \/ Backoff(c)
    \/ QueryReset(c)
    \/ GetRepo(c)
    \/ CreateRef(c)
    \/ CreatePull(c)
    \/ ReadFile(c)
    \/ UpdateFile(c)
    \/ CreateFile(c)
    \/ GetIssue(c)
    \/ GetLabels(c)
    \/ CreateMissingLabel(c)
    \/ AttachLabels(c)

----------------------------------------------------------------------------
(* Responses *)

NoPr == [number |-> 0, url |-> <<>>]
NoReq == [repo |-> <<>>, spec_path |-> <<>>]

\* The "details" of a payload: the fixed wording and the exception text put in it
Details(template, exc_text) == [template |-> template, exc_text |-> exc_text]

FailureResponse(statusCode, error, details) ==
    [statusCode |-> statusCode, success |-> "false", error |-> error,
     details |-> details, pr_number |-> 0, pr_url |-> <<>>,
     branch_name |-> NoBranch, warnings |-> <<>>, headers |-> FALSE,
     traceback |-> FALSE]

\* Mutant: the payload repeats the timestamp name derived first
ResponseBranchName_unsuffixed(r) == TimestampName(branch_name[r][1])

\* "branch_name": branch_name in the success payload
ResponseBranchName(r) == branch_name[r]

SuccessResponse(r, info) ==
    [statusCode |-> 200, success |-> "true", error |-> "",
     details |-> Details("", NoText), pr_number |-> info.number, pr_url |-> info.url,
     branch_name |-> ResponseBranchName(r), warnings |-> warnings[r],
     headers |-> FALSE, traceback |-> FALSE]

\* The except clauses of lambda_handler, the inner ones first.  stage is the
\* statement that raised, e the exception.
lambda_handler_except(stage, e) ==
    IF stage = "validate" /\ e.kind \in {"ValidationError", "ParseError"}
    THEN FailureResponse(400, "Validation failed", Details("", e.text))
    ELSE IF stage \in {"fetch", "parse_old"} /\ e.kind = "builtins.FileNotFoundError"
    THEN FailureResponse(404, "Spec file not found", Details("File not found in repo", NoText))
    ELSE IF stage = "create_pr" /\ e.kind = "PullRequestExistsError"
    THEN FailureResponse(409, "Pull request already exists",
                         Details("A PR already exists for branch", NoText))
    ELSE IF IsGitHubError(e.kind)
    THEN FailureResponse(502, "GitHub API error", Details("", e.text))
    ELSE IF e.kind = "KeyError"
    THEN FailureResponse(400, "Missing required field",
                         Details("Required field not found in request body", e.text))
    ELSE FailureResponse(500, "Internal server error", Details("", e.text))

sql_patterns == {<<"union select">>, <<"drop table">>, <<"-", "-">>, <<"/", "*">>, <<"xp_cmdshell">>}

Events ==
    [query : {<<>>, <<"a", "=", "1">>, <<"a", "=", "-", "-">>},
     path : {<<"/", "a">>, <<".", ".", "/", "a">>, <<".", ".", "\\", "a">>}]

is_suspicious_request(event) ==
    \/ event.query # <<>> /\ \E pattern \in sql_patterns : Contains(event.query, pattern)
    \/ Contains(event.path, <<".", ".", "/">>)
    \/ Contains(event.path, <<".", ".", "\\">>)

\* The wrapper's answer around the handler: outcome is what func(event, context)
\* did, [raised, exc, resp].
secure_handler(suspicious, outcome) ==
    IF suspicious
    THEN [FailureResponse(418, "Invalid request", Details("Request pattern not allowed", NoText))
            EXCEPT !.success = "absent", !.headers = TRUE]
    ELSE IF ~outcome.raised
    THEN [outcome.resp EXCEPT !.headers = TRUE]
    ELSE IF environment = "local"
    THEN [FailureResponse(500, outcome.exc.kind, Details("", outcome.exc.text))
            EXCEPT !.success = "absent", !.headers = TRUE, !.traceback = TRUE]
    ELSE [FailureResponse(500, "Internal server error",
                          Details("An unexpected error occurred", NoText))
            EXCEPT !.success = "absent", !.headers = TRUE]

Returned(resp) == [raised |-> FALSE, exc |-> [kind |-> NoExc, text |-> NoText], resp |-> resp]

----------------------------------------------------------------------------
(* The change detector: check_destructive_changes and its five categories *)

\* A dict is a function on the keys it holds; {} is the function on no key
EmptyDict == [k \in {} |-> TRUE]

Has(d, key) == key \in DOMAIN d

\* d.get(key, default)
Get(d, key, default) == IF Has(d, key) THEN d[key] ELSE default

\* `not d` of a dict
IsEmpty(d) == DOMAIN d = {}

\* The truth value of d.get(key): None (no such key), False, 0 and "" are false
HoldsTrue(d, key) == Has(d, key) /\ d[key]
HoldsNumber(d, key) == Has(d, key) /\ d[key] # 0
HoldsText(d, key) == Has(d, key) /\ d[key] # ""

SetOf_first(d, key) ==
    LET list == Get(d, key, <<>>) IN {list[i] : i \in DOMAIN list \cap {1}}

\* set(d.get(key, []))
SetOf(d, key) == LET list == Get(d, key, <<>>) IN {list[i] : i \in DOMAIN list}

SIZE_ORDER_reversed == [demo |-> 3, small |-> 2, medium |-> 1, large |-> 0]

SIZE_ORDER == [demo |-> 0, small |-> 1, medium |-> 2, large |-> 3]

ChangeWarning_critical(severity, message, field_path) ==
    [severity |-> "critical", message |-> message, field_path |-> field_path]

\* The message is the template with the values formatted into it
ChangeWarning(severity, message, field_path) ==
    [severity |-> severity, message |-> message, field_path |-> field_path]

\* spec.get("spec", {}).get(name, {})
Section(spec, name) == Get(Get(spec, "spec", EmptyDict), name, EmptyDict)

Reduced_or_same(old, new) == new <= old

\* new < old, the comparison of two orders, counts, days or amounts
Reduced(old, new) == new < old

_check_security_changes(old, new) ==
    LET old_sec == Section(old, "security")
        new_sec == Section(new, "security")
        old_waf == Get(old_sec, "waf", EmptyDict)
        new_waf == Get(new_sec, "waf", EmptyDict)
        removed_rules == SetOf(old_waf, "rulesets") \ SetOf(new_waf, "rulesets")
        old_enc == Get(old_sec, "encryption", EmptyDict)
        new_enc == Get(new_sec, "encryption", EmptyDict)
    IN  (IF HoldsTrue(old_waf, "enabled") /\ ~HoldsTrue(new_waf, "enabled")
         THEN <<ChangeWarning("warning", <<"Disabling WAF">>,
                              "spec.security.waf.enabled")>>
         ELSE <<>>)
        \o (IF /\ Get(old_waf, "mode", "None") = "block"
               /\ Get(new_waf, "mode", "None") = "monitor"
            THEN <<ChangeWarning("warning", <<"WAF mode downgrade">>,
                                 "spec.security.waf.mode")>>
            ELSE <<>>)
        \o (IF removed_rules # {}
            THEN <<ChangeWarning("warning", <<"Removing WAF rulesets", removed_rules>>,
                                 "spec.security.waf.rulesets")>>
            ELSE <<>>)
        \o (IF Get(old_enc, "atRest", TRUE) /\ ~Get(new_enc, "atRest", TRUE)
            THEN <<ChangeWarning("warning", <<"Disabling encryption at rest">>,
                                 "spec.security.encryption.atRest")>>
            ELSE <<>>)
        \o (IF Get(old_enc, "inTransit", TRUE) /\ ~Get(new_enc, "inTransit", TRUE)
            THEN <<ChangeWarning("warning", <<"Disabling encryption in transit">>,
                                 "spec.security.encryption.inTransit")>>
            ELSE <<>>)

_check_compute_changes(old, new) ==
    LET old_comp == Section(old, "compute")
        new_comp == Section(new, "compute")
        old_scaling == Get(old_comp, "scaling", EmptyDict)
        new_scaling == Get(new_comp, "scaling", EmptyDict)
    IN  IF IsEmpty(old_comp) \/ IsEmpty(new_comp) THEN <<>>
        ELSE
        (IF /\ HoldsText(old_comp, "size") /\ HoldsText(new_comp, "size")
            /\ Reduced(Get(SIZE_ORDER, old_comp.size, 0),
                       Get(SIZE_ORDER, new_comp.size, 0))
         THEN <<ChangeWarning("warning",
                              <<"Compute size reduction", old_comp.size, new_comp.size>>,
                              "spec.compute.size")>>
         ELSE <<>>)
        \o (IF /\ HoldsNumber(old_scaling, "max") /\ HoldsNumber(new_scaling, "max")
               /\ Reduced(old_scaling.max, new_scaling.max)
            THEN <<ChangeWarning("warning",
                                 <<"Maximum instance count reduced",
                                   old_scaling.max, new_scaling.max>>,
                                 "spec.compute.scaling.max")>>
            ELSE <<>>)
        \o (IF /\ HoldsNumber(old_scaling, "min") /\ HoldsNumber(new_scaling, "min")
               /\ Reduced(old_scaling.min, new_scaling.min)
            THEN <<ChangeWarning("warning",
                                 <<"Minimum instance count reduced",
                                   old_scaling.min, new_scaling.min>>,
                                 "spec.compute.scaling.min")>>
            ELSE <<>>)

IsRealEngine_any(old_data) == HoldsText(old_data, "engine")

\* old_engine and old_engine != "none"
IsRealEngine(old_data) == HoldsText(old_data, "engine") /\ old_data.engine # "none"

_check_data_changes(old, new) ==
    LET old_data == Section(old, "data")
        new_data == Section(new, "data")
    IN  IF IsEmpty(old_data) THEN <<>>
        ELSE
        (IF IsRealEngine(old_data)
         THEN IF Get(new_data, "engine", "None") = "none"
              THEN <<ChangeWarning("critical",
                                   <<"Setting data.engine to 'none' will DELETE all data",
                                     "(irreversible!)">>,
                                   "spec.data.engine")>>
              ELSE IF HoldsText(new_data, "engine")
                      /\ new_data.engine # old_data.engine
                   THEN <<ChangeWarning("critical",
                                        <<"Changing data.engine",
                                          old_data.engine, new_data.engine>>,
                                        "spec.data.engine")>>
                   ELSE <<>>
         ELSE <<>>)
        \o (IF /\ HoldsText(old_data, "size") /\ HoldsText(new_data, "size")
               /\ Reduced(Get(SIZE_ORDER, old_data.size, 0),
                          Get(SIZE_ORDER, new_data.size, 0))
            THEN <<ChangeWarning("warning",
                                 <<"Database size reduction", old_data.size, new_data.size>>,
                                 "spec.data.size")>>
            ELSE <<>>)
        \o (IF /\ HoldsTrue(old_data, "highAvailability")
               /\ ~HoldsTrue(new_data, "highAvailability")
            THEN <<ChangeWarning("warning", <<"Disabling high availability">>,
                                 "spec.data.highAvailability")>>
            ELSE <<>>)
        \o (IF /\ HoldsNumber(old_data, "backupRetention")
               /\ HoldsNumber(new_data, "backupRetention")
               /\ Reduced(old_data.backupRetention, new_data.backupRetention)
            THEN <<ChangeWarning("warning",
                                 <<"Backup retention reduced",
                                   old_data.backupRetention, new_data.backupRetention>>,
                                 "spec.data.backupRetention")>>
            ELSE <<>>)

_check_network_changes(old, new) ==
    LET old_net == Section(old, "network")
        new_net == Section(new, "network")
        removed_subnets == SetOf(old_net, "subnets") \ SetOf(new_net, "subnets")
    IN  IF IsEmpty(old_net) THEN <<>>
        ELSE
        (IF /\ HoldsText(old_net, "vpc") /\ HoldsText(new_net, "vpc")
            /\ old_net.vpc # new_net.vpc
         THEN <<ChangeWarning("warning", <<"VPC change">>, "spec.network.vpc")>>
         ELSE <<>>)
        \o (IF HoldsTrue(old_net, "publicAccess") /\ ~HoldsTrue(new_net, "publicAccess")
            THEN <<ChangeWarning("warning", <<"Disabling public access">>,
                                 "spec.network.publicAccess")>>
            ELSE <<>>)
        \o (IF removed_subnets # {}
            THEN <<ChangeWarning("warning", <<"Removing subnets", removed_subnets>>,
                                 "spec.network.subnets")>>
            ELSE <<>>)

_check_governance_changes(old, new) ==
    LET old_gov == Section(old, "governance")
        new_gov == Section(new, "governance")
        old_shutdown == Get(old_gov, "autoShutdown", EmptyDict)
        new_shutdown == Get(new_gov, "autoShutdown", EmptyDict)
    IN  (IF ~HoldsTrue(old_shutdown, "enabled") /\ HoldsTrue(new_shutdown, "enabled")
         THEN <<ChangeWarning("info",
                              <<"Auto-shutdown enabled", Get(new_shutdown, "afterHours", 24)>>,
                              "spec.governance.autoShutdown.enabled")>>
         ELSE <<>>)
        \o (IF /\ HoldsNumber(old_gov, "maxMonthlySpend")
               /\ HoldsNumber(new_gov, "maxMonthlySpend")
               /\ Reduced(old_gov.maxMonthlySpend, new_gov.maxMonthlySpend)
            THEN <<ChangeWarning("info",
                                 <<"Monthly budget reduced",
                                   old_gov.maxMonthlySpend, new_gov.maxMonthlySpend>>,
                                 "spec.governance.maxMonthlySpend")>>
            ELSE <<>>)

check_destructive_changes_governance_first(old, new) ==
    _check_governance_changes(old, new)
    \o _check_security_changes(old, new)
    \o _check_compute_changes(old, new)
    \o _check_data_changes(old, new)
    \o _check_network_changes(old, new)

\* The five categories, concatenated in this order
check_destructive_changes(old, new) ==
    _check_security_changes(old, new)
    \o _check_compute_changes(old, new)
    \o _check_data_changes(old, new)
    \o _check_network_changes(old, new)
    \o _check_governance_changes(old, new)

\* The sections a spec may hold, and for each the subtrees compared: the empty
\* one, strong and weak settings of every field, and one that omits fields
SectionNames == {"security", "compute", "data", "network", "governance"}

SectionDicts(name) ==
    CASE name = "security" ->
            {EmptyDict,
             [waf |-> [enabled |-> TRUE, mode |-> "block",
                       rulesets |-> <<"core-rule-set", "rate-limiting",
                                    "sql-injection">>],
              encryption |-> [atRest |-> TRUE, inTransit |-> TRUE]],
             [waf |-> [enabled |-> FALSE, mode |-> "monitor",
                       rulesets |-> <<"core-rule-set">>],
              encryption |-> [atRest |-> FALSE, inTransit |-> FALSE]],
             [waf |-> [enabled |-> TRUE]]}
      [] name = "compute" ->
            {EmptyDict,
             [size |-> "large", scaling |-> [min |-> 2, max |-> 10]],
             [size |-> "demo", scaling |-> [min |-> 1, max |-> 5]],
             [size |-> "large", scaling |-> [min |-> 1, max |-> 10]],
             [size |-> "xlarge", scaling |-> [max |-> 0]]}
      [] name = "data" ->
            {EmptyDict,
             [engine |-> "postgres", size |-> "large", highAvailability |-> TRUE,
              backupRetention |-> 30],
             [engine |-> "mysql", size |-> "small", highAvailability |-> FALSE,
              backupRetention |-> 7],
             [engine |-> "postgres", size |-> "small", highAvailability |-> FALSE,
              backupRetention |-> 7],
             [engine |-> "none"],
             [size |-> "medium", highAvailability |-> TRUE]}
      [] name = "network" ->
            {EmptyDict,
             [vpc |-> "vpc-old", publicAccess |-> TRUE,
              subnets |-> <<"subnet-1", "subnet-2">>],
             [vpc |-> "vpc-new", publicAccess |-> FALSE, subnets |-> <<"subnet-1">>],
             [publicAccess |-> TRUE]}
      [] OTHER ->
            {EmptyDict,
             [autoShutdown |-> [enabled |-> FALSE], maxMonthlySpend |-> 100],
             [autoShutdown |-> [enabled |-> FALSE], maxMonthlySpend |-> 50],
             [autoShutdown |-> [enabled |-> TRUE, afterHours |-> 12],
              maxMonthlySpend |-> 50],
             [autoShutdown |-> [enabled |-> TRUE]]}

\* One subtree for every section
SectionPicks ==
    [security : SectionDicts("security"), compute : SectionDicts("compute"),
     data : SectionDicts("data"), network : SectionDicts("network"),
     governance : SectionDicts("governance")]

\* The spec that holds the sections of `names`, each with the subtree pick gives it
SpecOf(names, pick) == [spec |-> [name \in names |-> pick[name]]]

\* Every choice of sections to hold and of a subtree for each, and the dict
\* without the key "spec"
DetectSpecs ==
    {EmptyDict} \cup
    UNION {{SpecOf(names, pick) : pick \in SectionPicks} : names \in SUBSET SectionNames}

\* The spec with section `name` set to d, and the one without that section
WithSection(spec, name, d) ==
    LET sections == Get(spec, "spec", EmptyDict)
    IN  [spec |-> [n \in DOMAIN sections \cup {name} |->
                       IF n = name THEN d ELSE sections[n]]]

WithoutSection(spec, name) ==
    LET sections == Get(spec, "spec", EmptyDict)
    IN  [spec |-> [n \in DOMAIN sections \ {name} |-> sections[n]]]

\* The new specs compared with an old one: the same spec, and those that differ
\* from it in one section
Revisions(spec) ==
    {spec}
    \cup UNION {{WithSection(spec, name, d) : d \in SectionDicts(name)} :
                name \in SectionNames}
    \cup {WithoutSection(spec, name) : name \in SectionNames}

\* No comparison is under way
DetectIdle ==
    /\ old_spec = EmptyDict
    /\ new_spec = EmptyDict
    /\ detected = <<>>
    /\ dpc = "off"

----------------------------------------------------------------------------
(* The orchestrator: lambda_handler under secure_handler, one action per step *)

\* The old spec of the repository, and the new specs of a request: the same
\* spec, and one that lowers fields of all five sections
DeployedSpec ==
    SpecOf(SectionNames,
           [security |-> [waf |-> [enabled |-> TRUE, mode |-> "block",
                                   rulesets |-> <<"core-rule-set", "rate-limiting",
                                                  "sql-injection">>],
                          encryption |-> [atRest |-> TRUE, inTransit |-> TRUE]],
            compute |-> [size |-> "large", scaling |-> [min |-> 2, max |-> 10]],
            data |-> [engine |-> "postgres", size |-> "large", highAvailability |-> TRUE,
                      backupRetention |-> 30],
            network |-> [vpc |-> "vpc-old", publicAccess |-> TRUE,
                         subnets |-> <<"subnet-1", "subnet-2">>],
            governance |-> [autoShutdown |-> [enabled |-> FALSE],
                            maxMonthlySpend |-> 100]])

LoweredSpec ==
    SpecOf(SectionNames,
           [security |-> [waf |-> [enabled |-> TRUE, mode |-> "monitor",
                                   rulesets |-> <<"core-rule-set">>],
                          encryption |-> [atRest |-> TRUE, inTransit |-> FALSE]],
            compute |-> [size |-> "demo", scaling |-> [min |-> 1, max |-> 5]],
            data |-> [engine |-> "mysql", size |-> "large", highAvailability |-> TRUE,
                      backupRetention |-> 7],
            network |-> [vpc |-> "vpc-old", publicAccess |-> FALSE,
                         subnets |-> <<"subnet-1", "subnet-2">>],
            governance |-> [autoShutdown |-> [enabled |-> TRUE, afterHours |-> 12],
                            maxMonthlySpend |-> 50]])

\* The warning lists check_destructive_changes returns to the handler
WarningLists ==
    {check_destructive_changes(DeployedSpec, new) : new \in {DeployedSpec, LoweredSpec}}

Bodies ==
    [kind : {"ok"}, repo : Repos, spec_path : Paths]
    \cup [kind : {"bad_json", "missing_field"}, repo : {<<>>}, spec_path : {<<>>}]

\* json.loads(event["body"]) and the three required fields
parse_body(body) ==
    CASE body.kind = "bad_json" -> "JSONDecodeError"
      [] body.kind = "missing_field" -> "KeyError"
      [] OTHER -> NoExc

\* The stage a statement of the handler belongs to
StageOf(at) ==
    CASE at = "start" -> "body"
      [] at \in {"branch", "branch_retry"} -> "create_branch"
      [] at = "pr" -> "create_pr"
      [] at = "labels" -> "add_labels"
      [] OTHER -> at

\* The statement that follows `at` when it completes
Successor(at) ==
    CASE at = "start" -> "validate"
      [] at = "validate" -> "fetch"
      [] at = "fetch" -> "parse_old"
      [] at = "parse_old" -> "diff"
      [] at = "diff" -> "branch"
      [] at = "branch" -> "commit"
      [] at = "branch_retry" -> "commit"
      [] at = "commit" -> "pr"
      [] at = "pr" -> "labels"
      [] OTHER -> "done"

\* Mutant: a failed validation of the new spec is logged and the handler goes on
HandlerNext_unvalidated(at, exc) ==
    IF at \in {"labels", "validate"} THEN Successor(at)
    ELSE IF exc = NoExc THEN Successor(at)
    ELSE IF at = "branch" /\ exc = "BranchExistsError" THEN "branch_retry"
    ELSE "done"

\* Mutant: a failed commit is logged and the handler goes on to the pull request
HandlerNext_uncommitted(at, exc) ==
    IF at \in {"labels", "commit"} THEN Successor(at)
    ELSE IF exc = NoExc THEN Successor(at)
    ELSE IF at = "branch" /\ exc = "BranchExistsError" THEN "branch_retry"
    ELSE "done"

\* Mutant: the suffixed create_branch is retried as long as the name is taken
HandlerNext_retry_loop(at, exc) ==
    IF at = "labels" THEN "done"
    ELSE IF exc = NoExc THEN Successor(at)
    ELSE IF at \in {"branch", "branch_retry"} /\ exc = "BranchExistsError"
    THEN "branch_retry"
    ELSE "done"

\* Where control goes from statement `at` that ended with exc (NoExc: normally):
\* on, into the one retry of create_branch, or to a return ("done").  The label
\* step returns whatever add_pr_labels raised.
HandlerNext(at, exc) ==
    IF at = "labels" THEN "done"
    ELSE IF exc = NoExc THEN Successor(at)
    ELSE IF at = "branch" /\ exc = "BranchExistsError" THEN "branch_retry"
    ELSE "done"

\* Mutant: the label step has no try of its own, its failure reaches the outer
\* except clauses
HandlerResponse_label_fatal(r, at, exc) ==
    IF at = "labels" /\ exc = NoExc THEN SuccessResponse(r, pr_info[r])
    ELSE lambda_handler_except(StageOf(at), [kind |-> exc, text |-> Str(exc)])

\* What the handler returns when it returns at statement `at`
HandlerResponse(r, at, exc) ==
    IF at = "labels" THEN SuccessResponse(r, pr_info[r])
    ELSE lambda_handler_except(StageOf(at), [kind |-> exc, text |-> Str(exc)])

\* The refs the repository holds when the requests arrive: the names a request
\* derives at clock value 1 are taken, those of every later clock value are free.
PreExisting == {TimestampName(1), SuffixedName(1, SUFFIX_MIN)}

InitProcess ==
    /\ req = [r \in Reqs |-> NoReq]
    /\ log = [r \in Reqs |-> <<>>]
    /\ branch_name = [r \in Reqs |-> NoBranch]
    /\ warnings = [r \in Reqs |-> <<>>]
    /\ pr_info = [r \in Reqs |-> NoPr]
    /\ response = [r \in Reqs |-> <<>>]
    /\ branches = PreExisting
    /\ commits = <<>>
    /\ prs = {}
    /\ labelled = {}
    /\ ghClient = FALSE
    /\ faulty = TRUE

\* One request, in every configuration of the process
Init ==
    /\ InitProcess
    /\ pc = [r \in Reqs |-> IF r = 1 THEN "start" ELSE "idle"]
    /\ environment \in {"local", "production"}
    /\ allowed_repos \in {<<>>, <<GoodRepo>>}
    /\ ClientIdle
    /\ DetectIdle
    /\ ParseIdle

\* Two requests at once, in a deployed process without allowlist
InitConc ==
    /\ InitProcess
    /\ pc = [r \in Reqs |-> "start"]
    /\ environment = "production"
    /\ allowed_repos = <<>>
    /\ ClientIdle
    /\ DetectIdle
    /\ ParseIdle

Entry(stage, arg, res) == [stage |-> stage, arg |-> arg, res |-> res]

\* Statement `at` of request r ended with exc: the stage is on record, control
\* moves on, and a return goes through the wrapper to the caller.
Step(r, at, arg, exc) ==
    /\ log' = [log EXCEPT ![r] =
                 Append(@, Entry(StageOf(at), arg, IF exc = NoExc THEN "ok" ELSE exc))]
    /\ pc' = [pc EXCEPT ![r] = HandlerNext(at, exc)]
    /\ response' =
          IF HandlerNext(at, exc) = "done"
          THEN [response EXCEPT ![r] =
                  Append(@, secure_handler(FALSE, Returned(HandlerResponse(r, at, exc))))]
          ELSE response

\* wrapper entry and step 1: the suspicious-request check, then the request body
Receive(r) ==
    /\ pc[r] = "start"
    /\ \E event \in Events, body \in Bodies :
          IF is_suspicious_request(event)
          THEN /\ response' = [response EXCEPT ![r] =
                                 Append(@, secure_handler(TRUE, Returned(NoPr)))]
               /\ pc' = [pc EXCEPT ![r] = "done"]
               /\ UNCHANGED <<req, log>>
          ELSE /\ req' = IF parse_body(body) = NoExc
                         THEN [req EXCEPT ![r] = [repo |-> body.repo,
                                                  spec_path |-> body.spec_path]]
                         ELSE req
               /\ Step(r, "start", NoBranch, parse_body(body))
    /\ UNCHANGED <<clientVars, detectVars, parseVars>>
    /\ UNCHANGED <<branch_name, warnings, pr_info, branches, commits, prs, labelled,
                   faulty, ghClient, environment, allowed_repos>>

\* step 2: new_spec = parse_spec(new_spec_yaml)
ValidateNewSpec(r) ==
    /\ pc[r] = "validate"
    /\ \E new_spec_yaml \in SpecTexts :
          Step(r, "validate", NoBranch, parse_spec(new_spec_yaml))
    /\ UNCHANGED <<clientVars, detectVars, parseVars>>
    /\ UNCHANGED <<req, branch_name, warnings, pr_info, branches, commits, prs, labelled,
                   faulty, ghClient, environment, allowed_repos>>

\* step 3, first statement: old_spec_yaml = fetch_spec_file(repo_name, spec_path)
FetchOldSpec(r) ==
    /\ pc[r] = "fetch"
    /\ \E ans \in FetchAnswers(req[r].repo, ghClient) :
          /\ ghClient' = HandleAfter(FetchPrelude(req[r].repo, req[r].spec_path),
                                     ghClient, ans.auth)
          /\ Step(r, "fetch", NoBranch,
                  fetch_spec_file(req[r].repo, req[r].spec_path, ghClient, ans))
    /\ UNCHANGED <<clientVars, detectVars, parseVars>>
    /\ UNCHANGED <<req, branch_name, warnings, pr_info, branches, commits, prs, labelled,
                   faulty, environment, allowed_repos>>

\* step 3, second statement: old_spec = parse_spec(old_spec_yaml)
ParseOldSpec(r) ==
    /\ pc[r] = "parse_old"
    /\ \E old_spec_yaml \in SpecTexts :
          Step(r, "parse_old", NoBranch, parse_spec(old_spec_yaml))
    /\ UNCHANGED <<clientVars, detectVars, parseVars>>
    /\ UNCHANGED <<req, branch_name, warnings, pr_info, branches, commits, prs, labelled,
                   faulty, ghClient, environment, allowed_repos>>

\* step 4: warnings = check_destructive_changes(old_spec, new_spec)
DetectChanges(r) ==
    /\ pc[r] = "diff"
    /\ \E ws \in WarningLists : warnings' = [warnings EXCEPT ![r] = ws]
    /\ Step(r, "diff", NoBranch, NoExc)
    /\ UNCHANGED <<clientVars, detectVars, parseVars>>
    /\ UNCHANGED <<req, branch_name, pr_info, branches, commits, prs, labelled,
                   faulty, ghClient, environment, allowed_repos>>

\* create_branch(repo_name, name) by request r at statement `at`
CallCreateBranch_keeps_name(r, at, name) ==
    \E ans \in BranchAnswers(req[r].repo, ghClient, name) :
        /\ branch_name' = [branch_name EXCEPT ![r] = IF at = "branch" THEN name ELSE @]
        /\ ghClient' = HandleAfter(validate_repository_whitelist(req[r].repo),
                                   ghClient, ans.auth)
        /\ branches' = IF create_branch(req[r].repo, ghClient, ans) = NoExc
                       THEN branches \cup {name}
                       ELSE branches
        /\ Step(r, at, name, create_branch(req[r].repo, ghClient, ans))

CallCreateBranch(r, at, name) ==
    \E ans \in BranchAnswers(req[r].repo, ghClient, name) :
        /\ branch_name' = [branch_name EXCEPT ![r] = name]
        /\ ghClient' = HandleAfter(validate_repository_whitelist(req[r].repo),
                                   ghClient, ans.auth)
        /\ branches' = IF create_branch(req[r].repo, ghClient, ans) = NoExc
                       THEN branches \cup {name}
                       ELSE branches
        /\ Step(r, at, name, create_branch(req[r].repo, ghClient, ans))

\* step 5: the timestamp name and the first create_branch
CreateBranch(r) ==
    /\ pc[r] = "branch"
    /\ \E timestamp \in Timestamps : CallCreateBranch(r, "branch", TimestampName(timestamp))
    /\ UNCHANGED <<clientVars, detectVars, parseVars>>
    /\ UNCHANGED <<req, warnings, pr_info, commits, prs, labelled, faulty, environment,
                   allowed_repos>>

\* step 5, except BranchExistsError: the suffixed name and the second create_branch
RetryCreateBranch(r) ==
    /\ pc[r] = "branch_retry"
    /\ \E suffix \in SuffixSamples :
          CallCreateBranch(r, "branch_retry", SuffixedName(branch_name[r][1], suffix))
    /\ UNCHANGED <<clientVars, detectVars, parseVars>>
    /\ UNCHANGED <<req, warnings, pr_info, commits, prs, labelled, faulty, environment,
                   allowed_repos>>

\* step 6: commit_sha = commit_file_change(...)
CommitSpec(r) ==
    /\ pc[r] = "commit"
    /\ \E ans \in CommitAnswers(req[r].repo, ghClient) :
          LET res == commit_file_change(req[r].repo, ghClient, ans)
          IN /\ ghClient' = HandleAfter(validate_repository_whitelist(req[r].repo),
                                        ghClient, ans.auth)
             /\ commits' = commits \o [i \in DOMAIN res.writes |->
                                         [branch |-> branch_name[r], by |-> r,
                                          write |-> res.writes[i]]]
             /\ Step(r, "commit", branch_name[r], res.exc)
    /\ UNCHANGED <<clientVars, detectVars, parseVars>>
    /\ UNCHANGED <<req, branch_name, warnings, pr_info, branches, prs, labelled,
                   faulty, environment, allowed_repos>>

\* steps 7 and 8: the PR description and create_pull_request
CreatePullRequest(r) ==
    /\ pc[r] = "pr"
    /\ \E ans \in PullRequestAnswers(req[r].repo, ghClient, branch_name[r]) :
          LET exc == create_pull_request(req[r].repo, ghClient, ans)
              number == Cardinality(prs) + 1
          IN /\ ghClient' = HandleAfter(validate_repository_whitelist(req[r].repo),
                                        ghClient, ans.auth)
             /\ prs' = IF exc = NoExc
                       THEN prs \cup {[number |-> number, head |-> branch_name[r], by |-> r]}
                       ELSE IF exc = "PullRequestExistsError"
                                 /\ ~\E p \in prs : p.head = branch_name[r]
                       THEN prs \cup {[number |-> number, head |-> branch_name[r], by |-> 0]}
                       ELSE prs
             /\ pr_info' = IF exc = NoExc
                           THEN [pr_info EXCEPT ![r] =
                                   [number |-> number, url |-> <<"pull", number>>]]
                           ELSE pr_info
             /\ Step(r, "pr", branch_name[r], exc)
    /\ UNCHANGED <<clientVars, detectVars, parseVars>>
    /\ UNCHANGED <<req, branch_name, warnings, branches, commits, labelled,
                   faulty, environment, allowed_repos>>

\* steps 9 and 10: add_pr_labels, whose failure is logged only, and the response
AddLabelsAndRespond(r) ==
    /\ pc[r] = "labels"
    /\ \E ans \in LabelAnswers(req[r].repo, ghClient) :
          LET exc == add_pr_labels(req[r].repo, ghClient, ans)
          IN /\ labelled' = IF exc = NoExc THEN labelled \cup {pr_info[r].number}
                            ELSE labelled
             /\ Step(r, "labels", branch_name[r], exc)
    /\ UNCHANGED <<clientVars, detectVars, parseVars>>
    /\ UNCHANGED <<req, branch_name, warnings, pr_info, branches, commits, prs,
                   faulty, ghClient, environment, allowed_repos>>

\* The step of request r
Handle(r) ==
    \/ Receive(r)
    \/ ValidateNewSpec(r)
    \/ FetchOldSpec(r)
    \/ ParseOldSpec(r)
    \/ DetectChanges(r)
    \/ CreateBranch(r)
    \/ RetryCreateBranch(r)
    \/ CommitSpec(r)
    \/ CreatePullRequest(r)
    \/ AddLabelsAndRespond(r)

Next == \E r \in Reqs : Handle(r)

Spec == Init /\ [][Next]_vars

\* The same handler, two requests interleaved at the client operations
SpecConc == InitConc /\ [][Next]_vars


\* One thread runs client operations one after the other in a process, while the
\* secret may be rotated
InitClient ==
    /\ InitProcess
    /\ pc = [r \in Reqs |-> "idle"]
    /\ environment = "production"
    /\ allowed_repos \in {<<>>, <<GoodRepo>>}
    /\ cpc = [c \in Callers |-> IF c = 1 THEN "idle" ELSE "off"]
    /\ call = [c \in Callers |-> NoCall]
    /\ events = [c \in Callers |-> <<>>]
    /\ cache = NoHandle
    /\ remote \in [secret : {1}, reads : {0}, handles : {0}, file : BOOLEAN,
                   labels : {DefinedLabels}, attached : {<<>>}]
    /\ budget = MaxOps
    /\ DetectIdle
    /\ ParseIdle

NextClient ==
    \/ \E c \in Callers : Invoke(c) \/ Acquire(c) \/ Operate(c)
    \/ RotateSecret

SpecClient == InitClient /\ [][NextClient]_vars

\* Two threads of one process call the client at the same time
InitShared ==
    /\ InitProcess
    /\ pc = [r \in Reqs |-> "idle"]
    /\ environment = "production"
    /\ allowed_repos = <<>>
    /\ cpc = [c \in Callers |-> "idle"]
    /\ call = [c \in Callers |-> NoCall]
    /\ events = [c \in Callers |-> <<>>]
    /\ cache = NoHandle
    /\ remote = [secret |-> 1, reads |-> 0, handles |-> 0, file |-> FALSE,
                 labels |-> DefinedLabels, attached |-> <<>>]
    /\ budget = MaxOps
    /\ DetectIdle
    /\ ParseIdle

InvokeBranch(c) == InvokeOp(c, {"create_branch"})

NextShared ==
    \E c \in Callers : InvokeBranch(c) \/ Acquire(c) \/ GetRepo(c) \/ CreateRef(c)

SpecShared == InitShared /\ [][NextShared]_vars

\* The detector compares an old spec with a new one
InitDetect ==
    /\ InitProcess
    /\ pc = [r \in Reqs |-> "idle"]
    /\ environment = "production"
    /\ allowed_repos = <<>>
    /\ ClientIdle
    /\ old_spec \in DetectSpecs
    /\ new_spec \in Revisions(old_spec)
    /\ detected = <<>>
    /\ dpc = "drawn"
    /\ ParseIdle

Detect ==
    /\ dpc = "drawn"
    /\ detected' = check_destructive_changes(old_spec, new_spec)
    /\ dpc' = "done"
    /\ UNCHANGED <<old_spec, new_spec, handlerVars, faulty, allowed_repos, clientVars,
                   parseVars>>

NextDetect == Detect

SpecDetect == InitDetect /\ [][NextDetect]_vars

\* parse_and_validate is given a text
InitParse ==
    /\ InitProcess
    /\ pc = [r \in Reqs |-> "idle"]
    /\ environment = "production"
    /\ allowed_repos = <<>>
    /\ ClientIdle
    /\ DetectIdle
    /\ document \in ParseTexts
    /\ ppc = "size"
    /\ steps = <<>>
    /\ result = NoParse

NextParse == CheckSize \/ ScanTags \/ SafeLoad \/ IterErrors

SpecParse == InitParse /\ [][NextParse]_vars

----------------------------------------------------------------------------
(* Reading the record of a request *)

StageRank(stage) ==
    CASE stage = "body" -> 0
      [] stage = "validate" -> 1
      [] stage = "fetch" -> 2
      [] stage = "parse_old" -> 3
      [] stage = "diff" -> 4
      [] stage = "create_branch" -> 5
      [] stage = "commit" -> 6
      [] stage = "create_pr" -> 7
      [] OTHER -> 8

IsStage(e, stage) == e.stage = stage
EntriesOf(r, stage) == SelectSeq(log[r], LAMBDA e : IsStage(e, stage))
Entered(r, stage) == \E i \in DOMAIN log[r] : log[r][i].stage = stage
Succeeded(r, stage) == \E i \in DOMAIN log[r] : log[r][i].stage = stage /\ log[r][i].res = "ok"
FailedAt(r, stage) == \E i \in DOMAIN log[r] : log[r][i].stage = stage /\ log[r][i].res # "ok"
RemoteStages == {"fetch", "create_branch", "commit", "create_pr", "add_labels"}

Responded(r) == Len(response[r]) > 0
Answer(r) == response[r][1]
Succeeds(r) == Responded(r) /\ Answer(r).success = "true"
CommitsBy(r) == SelectSeq(commits, LAMBDA c : c.by = r)
PullsBy(r) == {p \in prs : p.by = r}

----------------------------------------------------------------------------
(* Claims *)

\* C1: the stages of a request occur in the fixed order validate, fetch old spec
\* (fetch, then parse), diff, create branch, commit, create pull request, add
\* labels, and the response is last; a stage is entered only after every earlier
\* stage succeeded (create branch is the one stage entered twice, after its
\* collision), so a commit is written only to a branch this request created and a
\* pull request is opened only after this request's commit succeeded.
C1_StageOrder ==
    \A r \in Reqs :
        /\ \A i, j \in DOMAIN log[r] :
              i < j => \/ StageRank(log[r][i].stage) < StageRank(log[r][j].stage)
                       \/ /\ log[r][i].stage = "create_branch"
                          /\ log[r][j].stage = "create_branch"
                          /\ log[r][i].res = "BranchExistsError"
        /\ \A j \in DOMAIN log[r] :
              \A k \in 0..(StageRank(log[r][j].stage) - 1) :
                  \E i \in 1..(j - 1) :
                      StageRank(log[r][i].stage) = k /\ log[r][i].res = "ok"
        /\ \A i \in DOMAIN commits :
              commits[i].by = r =>
                  \E e \in DOMAIN log[r] :
                      /\ log[r][e].stage = "create_branch" /\ log[r][e].res = "ok"
                      /\ log[r][e].arg = commits[i].branch
                      /\ commits[i].branch \in branches
        /\ \A p \in PullsBy(r) :
              /\ Succeeded(r, "commit")
              /\ \E i \in DOMAIN commits : commits[i].by = r /\ commits[i].branch = p.head
        /\ Responded(r) <=> pc[r] = "done"

C1_Witness ==
    \E r \in Reqs :
        /\ pc[r] = "done"
        /\ Len(log[r]) = 9
        /\ \A i \in DOMAIN log[r] : log[r][i].res = "ok"
        /\ Answer(r).statusCode = 200

\* C2: when the new spec fails validation the request ends with status 400 and
\* success=false and nothing was asked of the client or the remote: no fetch, no
\* branch, no commit, no pull request, no labels, no secret read.
C2_RejectedSpecNoRemoteOperation ==
    \A r \in Reqs :
        FailedAt(r, "validate") =>
            /\ pc[r] = "done"
            /\ Len(response[r]) = 1
            /\ Answer(r).statusCode = 400
            /\ Answer(r).success = "false"
            /\ \A i \in DOMAIN log[r] : log[r][i].stage \notin RemoteStages
            /\ branches = PreExisting
            /\ commits = <<>>
            /\ prs = {}
            /\ labelled = {}
            /\ ~ghClient

C2_Witness ==
    \E r \in Reqs : FailedAt(r, "validate") /\ pc[r] = "done" /\ Answer(r).statusCode = 400

\* C3: create_branch is called first with the timestamp name; a second call is
\* made exactly when the first failed with BranchExists, under the same timestamp
\* with a suffix in 1000..9999; a second BranchExists ends the request as a
\* failure without commit or pull request; there is never a third call.
C3_OneBranchRetry ==
    \A r \in Reqs :
        LET cb == EntriesOf(r, "create_branch")
        IN /\ Len(cb) <= 2
           /\ Len(cb) >= 1 => cb[1].arg = TimestampName(cb[1].arg[1])
           /\ Len(cb) = 2 =>
                 /\ cb[1].res = "BranchExistsError"
                 /\ cb[2].arg[1] = cb[1].arg[1]
                 /\ cb[2].arg[2] \in SUFFIX_MIN..SUFFIX_MAX
           /\ (Len(cb) >= 1 /\ cb[1].res = "BranchExistsError" /\ pc[r] # "branch_retry")
                 => Len(cb) = 2
           /\ (Len(cb) = 2 /\ cb[2].res = "BranchExistsError") =>
                 /\ pc[r] = "done"
                 /\ Answer(r).success = "false"
                 /\ Answer(r).statusCode # 200
                 /\ ~Entered(r, "commit") /\ ~Entered(r, "create_pr")
                 /\ Len(CommitsBy(r)) = 0
                 /\ PullsBy(r) = {}

C3_Witness ==
    \E r \in Reqs :
        LET cb == EntriesOf(r, "create_branch")
        IN Len(cb) = 2 /\ cb[2].res = "BranchExistsError" /\ pc[r] = "done"

\* C4: once the pull request exists, a failure of the label step, whatever was
\* raised, leaves the response what it is without the failure: 200, success=true,
\* the number and URL of the pull request, the branch name and the warnings.
C4_LabelFailureSwallowed ==
    \A r \in Reqs :
        FailedAt(r, "add_labels") =>
            /\ pc[r] = "done"
            /\ Len(response[r]) = 1
            /\ Answer(r).statusCode = 200
            /\ Answer(r).success = "true"
            /\ Answer(r).pr_number = pr_info[r].number
            /\ \E p \in PullsBy(r) : p.number = Answer(r).pr_number
            /\ Answer(r).pr_url = pr_info[r].url
            /\ Answer(r).branch_name = branch_name[r]
            /\ Answer(r).warnings = warnings[r]
            /\ Answer(r).details.exc_text = NoText

C4_Witness ==
    \E r \in Reqs :
        /\ FailedAt(r, "add_labels") /\ pc[r] = "done"
        /\ warnings[r] # <<>>
        /\ Answer(r).pr_number \notin labelled

\* C5 (as claimed): a fetch of the old spec that fails with the client's
\* file-not-found or repository-not-found error is answered with status 404, and
\* no branch, commit or pull request was made.
C5_NotFoundAnswered404 ==
    \A r \in Reqs :
        (\E i \in DOMAIN log[r] :
            /\ log[r][i].stage = "fetch"
            /\ log[r][i].res \in {"FileNotFoundError", "RepositoryNotFoundError"})
        => /\ pc[r] = "done"
           /\ Answer(r).statusCode = 404
           /\ ~Entered(r, "create_branch")
           /\ Len(CommitsBy(r)) = 0
           /\ PullsBy(r) = {}

\* C6 (as claimed): every validation failure, of the new spec or of the old one,
\* is answered with status 400.
C6_ValidationAnswered400 ==
    \A r \in Reqs :
        (\E i \in DOMAIN log[r] :
            /\ log[r][i].stage \in {"validate", "parse_old"}
            /\ log[r][i].res \in {"ValidationError", "ParseError", "SecurityError"})
        => /\ pc[r] = "done"
           /\ Answer(r).statusCode = 400

\* C7 (as claimed): outside local-debug mode no failure response carries the text
\* of the exception or a stack trace.
C7_NoExceptionTextInPayload ==
    \A r \in Reqs :
        (/\ environment # "local"
         /\ Responded(r)
         /\ Answer(r).statusCode \in {400, 404, 409, 502, 500})
        => /\ Answer(r).details.exc_text = NoText
           /\ ~Answer(r).traceback

\* C8 (as claimed): after the new spec passed validation, a client operation of
\* the fetch, branch, commit or pull-request stage that ends the request with an
\* error other than a not-found, a duplicate pull request or a rejected argument
\* is answered with status 502 and success=false.
C8_RemoteFailureAnswered502 ==
    \A r \in Reqs :
        (/\ pc[r] = "done"
         /\ Succeeded(r, "validate")
         /\ log[r][Len(log[r])].stage \in {"fetch", "create_branch", "commit", "create_pr"}
         /\ log[r][Len(log[r])].res \notin
               {"ok", "FileNotFoundError", "RepositoryNotFoundError", "BranchNotFoundError",
                "PullRequestNotFoundError", "PullRequestExistsError", "ValueError"})
        => /\ Answer(r).statusCode = 502
           /\ Answer(r).success = "false"

\* C9: a request ends in exactly one response, writes at most one commit and opens
\* at most one pull request; it answers success at most once, and only with the
\* pull request it opened itself.
C9_OneResponseOneCommitOnePull ==
    \A r \in Reqs :
        /\ Len(response[r]) <= 1
        /\ pc[r] = "done" <=> Len(response[r]) = 1
        /\ Len(CommitsBy(r)) <= 1
        /\ Cardinality(PullsBy(r)) <= 1
        /\ Succeeds(r) =>
              /\ Answer(r).statusCode = 200
              /\ \E p \in PullsBy(r) :
                    /\ p.number = Answer(r).pr_number
                    /\ p.head = Answer(r).branch_name
                    /\ Answer(r).pr_url = <<"pull", p.number>>
              /\ Len(CommitsBy(r)) = 1

C9_Witness ==
    \E r \in Reqs :
        /\ Succeeds(r)
        /\ Len(CommitsBy(r)) = 1
        /\ Cardinality(PullsBy(r)) = 1
        /\ Answer(r).pr_number = Cardinality(prs)

\* C10: of two requests running at once against the same repository and spec
\* path, neither ever waits for the other (a request that has not answered can
\* always take its next step), and when both answer success their branch names
\* differ and their pull requests differ, also when both derived the same
\* timestamp.
C10_ConcurrentRequestsDistinct ==
    /\ \A r \in Reqs : pc[r] \notin {"done", "idle"} => ENABLED Handle(r)
    /\ \A r1, r2 \in Reqs :
          (r1 # r2 /\ Succeeds(r1) /\ Succeeds(r2) /\ req[r1] = req[r2]) =>
              /\ Answer(r1).branch_name # Answer(r2).branch_name
              /\ Answer(r1).pr_number # Answer(r2).pr_number
              /\ Answer(r1).pr_url # Answer(r2).pr_url

C10_Witness ==
    \E r1, r2 \in Reqs :
        /\ r1 # r2 /\ Succeeds(r1) /\ Succeeds(r2) /\ req[r1] = req[r2]
        /\ branch_name[r1][1] = branch_name[r2][1]
        /\ branch_name[r1][2] = 0 /\ branch_name[r2][2] # 0

----------------------------------------------------------------------------
(* Reading the record of a client operation *)

IsKind(e, kinds) == e.kind \in kinds
OfKind(c, kinds) == SelectSeq(events[c], LAMBDA e : IsKind(e, kinds))
Finished(c) == cpc[c] = "idle" /\ call[c].op # "none"
Returned_ok(c) == Finished(c) /\ call[c].result.exc = NoExc
Fetching(c) == call[c].op = "fetch_spec_file"
\* What reaches beyond the process: the secret store and the remote
OutwardKinds ==
    {"get_parameter", "get_rate_limit", "get_repo", "get_contents", "get_git_ref",
     "create_git_ref", "create_pull", "update_file", "create_file", "get_issue",
     "get_labels", "create_label", "add_to_labels"}
\* The passes of the fetch loop that did not deliver: rate-limited, or failed
FailedPass(e) ==
    /\ e.kind \in {"get_repo", "get_contents"}
    /\ e.arg[2] \notin {"ok", "content", "rate_limit"}

\* C11: a fetch that met k rate-limit responses (k from 0 to 3) and then a
\* successful one made k backoff waits, of 1, 2, 4 seconds in that order, each
\* between the rate-limited attempt and the next attempt, and returned the
\* content of attempt k+1.
C11_BackoffThenContent ==
    \A c \in Callers :
        (Fetching(c) /\ Returned_ok(c)) =>
            LET tries == OfKind(c, {"get_contents"})
                waits == OfKind(c, {"sleep"})
                loop == OfKind(c, {"get_contents", "sleep"})
                k == Len(tries) - 1
            IN /\ k \in 0..3
               /\ \A i \in 1..k : tries[i].arg = <<i - 1, "rate_limit">>
               /\ tries[k + 1].arg = <<k, "content">>
               /\ Len(waits) = k
               /\ \A i \in 1..k : waits[i].arg = 2 ^ (i - 1)
               /\ Len(loop) = 2 * k + 1
               /\ \A i \in 1..k : loop[2 * i - 1] = tries[i] /\ loop[2 * i] = waits[i]
               /\ loop[2 * k + 1] = tries[k + 1]
               /\ call[c].result.value = <<"content", k>>

C11_Witness ==
    \E c \in Callers :
        /\ Fetching(c) /\ Returned_ok(c)
        /\ Len(OfKind(c, {"sleep"})) = 3
        /\ OfKind(c, {"sleep"})[3].arg = 4

\* C12 (as claimed): a fetch whose every attempt met a rate-limit response ends
\* with RateLimitError carrying a retry-after value that is not negative, and
\* with nothing else.
C12_ExhaustedIsRateLimitError ==
    \A c \in Callers :
        (/\ Fetching(c) /\ Finished(c)
         /\ Len(OfKind(c, {"get_contents"})) = MAX_RETRIES + 1
         /\ \A i \in 1..(MAX_RETRIES + 1) :
               OfKind(c, {"get_contents"})[i].arg[2] = "rate_limit")
        => /\ call[c].result.exc = "RateLimitError"
           /\ call[c].result.value[1] = "retry_after"
           /\ call[c].result.value[2] >= 0

\* C13 (as claimed): one fetch makes no more than 3 attempts against the remote.
C13_AtMostThreeAttempts ==
    \A c \in Callers : Fetching(c) => Len(OfKind(c, {"get_repo"})) <= 3

\* C13 (amended): one fetch makes no more than 4 attempts against the remote,
\* the first and 3 retries; the waits between them start at 1 second and double.
C13_AtMostFourAttempts ==
    \A c \in Callers :
        Fetching(c) =>
            LET waits == OfKind(c, {"sleep"})
            IN /\ Len(OfKind(c, {"get_repo"})) <= MAX_RETRIES + 1
               /\ Len(waits) <= MAX_RETRIES
               /\ Len(waits) >= 1 => waits[1].arg = 1
               /\ \A i \in 1..(Len(waits) - 1) : waits[i + 1].arg = 2 * waits[i].arg

C13_Witness ==
    \E c \in Callers :
        /\ Fetching(c) /\ Finished(c)
        /\ Len(OfKind(c, {"get_repo"})) = 4
        /\ Len(OfKind(c, {"sleep"})) = 3

\* C14: in a fetch an answer other than a rate-limit response that is no content
\* (repository not found, file not found, a directory, any other remote error), on
\* whichever attempt, and a bad repository name before the first, ends the
\* operation there with the matching error: no wait and no attempt follows.
C14_FailureEndsFetch ==
    \A c \in Callers :
        Fetching(c) =>
            /\ \A i \in DOMAIN events[c] :
                  FailedPass(events[c][i]) =>
                      /\ i + 1 = Len(events[c])
                      /\ events[c][i + 1].kind = "raise"
                      /\ events[c][i + 1].arg =
                            CASE events[c][i].arg[2] = "repo_unknown" -> "RepositoryNotFoundError"
                              [] events[c][i].arg[2] \in {"file_unknown", "directory"}
                                    -> "FileNotFoundError"
                              [] OTHER -> "GitHubError"
                      /\ Finished(c)
            /\ (Finished(c) /\ call[c].result.exc = "ValueError")
                  => OfKind(c, OutwardKinds \cup {"sleep"}) = <<>>

C14_Witness ==
    \E c \in Callers :
        /\ Fetching(c) /\ Finished(c)
        /\ call[c].result.exc = "FileNotFoundError"
        /\ Len(OfKind(c, {"sleep"})) = 2
        /\ FailedPass(events[c][Len(events[c]) - 1])

UsesHandle(c) == cpc[c] \notin {"idle", "off", "validate", "get_github_client",
                                "get_parameter", "authenticate"}

\* C16 (as claimed): over any sequence of operations in one process the secret is
\* read from the secret store once and never again.
C16_SecretReadOnce ==
    /\ remote.reads <= 1
    /\ \A c \in Callers : UsesHandle(c) => remote.reads = 1

\* C16 (amended): once an operation has read the secret and authenticated, the
\* handle stays in the cache and the secret is never read again: every later
\* operation uses that same handle, also after the secret was rotated. Before
\* that, each operation that needs the handle reads the secret itself.
C16_NoReadAfterAuthentication ==
    /\ [](\A c \in Callers : UsesHandle(c) => (cache # NoHandle /\ call[c].client = cache))
    /\ [](cache = NoHandle => remote.handles = 0)
    /\ [][cache # NoHandle =>
            /\ cache' = cache
            /\ remote'.reads = remote.reads
            /\ remote'.handles = remote.handles]_vars
    /\ [][\A c \in Callers :
            (cache = NoHandle /\ cpc[c] = "get_github_client" /\ cpc'[c] # cpc[c])
               => cpc'[c] = "get_parameter"]_vars

C16_Witness ==
    \E c \in Callers :
        /\ Returned_ok(c)
        /\ call[c].n = 2
        /\ call[c].client = cache
        /\ cache.token < remote.secret
        /\ remote.reads = 1
        /\ OfKind(c, {"get_parameter"}) = <<>>

\* C17 (as claimed): whatever the interleaving of the callers that need the
\* handle for the first time, one handle is created: the secret store is read at
\* most once in all, and every caller uses the handle that is in the cache.
C17_HandleCreatedOnce ==
    /\ remote.handles <= 1
    /\ remote.reads <= 1
    /\ \A c \in Callers : UsesHandle(c) => call[c].client = cache
    /\ \A c1, c2 \in Callers :
          (UsesHandle(c1) /\ UsesHandle(c2)) => call[c1].client = call[c2].client

\* C18 (as claimed): commit_file_change reads the file on the branch first; when
\* the read found the file it issues one update and no create, when the read
\* found no file it issues one create and no update, and it returns the new
\* commit; a create never follows a read that succeeded.
C18_UpdateOrCreate ==
    \A c \in Callers :
        (call[c].op = "commit_file_change" /\ OfKind(c, {"get_contents"}) # <<>>) =>
            LET found == OfKind(c, {"get_contents"})[1].arg = "ok"
                absent == OfKind(c, {"get_contents"})[1].arg = "unknown"
                updates == OfKind(c, {"update_file"})
                creates == OfKind(c, {"create_file"})
            IN /\ Len(OfKind(c, {"get_contents"})) = 1
               /\ found => /\ Len(creates) = 0
                           /\ Len(updates) <= 1
                           /\ Returned_ok(c) => (/\ Len(updates) = 1
                                                 /\ call[c].result.value = <<"commit", "update">>)
               /\ absent => /\ Len(updates) = 0
                            /\ Len(creates) <= 1
                            /\ Returned_ok(c) => (/\ Len(creates) = 1
                                                  /\ call[c].result.value = <<"commit", "create">>)

IsMissing(label_name, existing_labels) == label_name \notin existing_labels
MissingOf(labels, existing_labels) ==
    SelectSeq(labels, LAMBDA label_name : IsMissing(label_name, existing_labels))
CreatedLabels(c) ==
    [i \in DOMAIN OfKind(c, {"create_label"}) |-> OfKind(c, {"create_label"})[i].arg[1]]

\* C19: add_pr_labels creates a label definition, in the default colour, for
\* exactly the given labels the repository did not define, and none for a label
\* it defined; only after the creations it attaches all the given labels, in
\* the given order; when it returns, every given label is defined in the
\* repository and attached to the pull request.
C19_CreateMissingThenAttach ==
    \A c \in Callers :
        (/\ call[c].op = "add_pr_labels"
         /\ OfKind(c, {"get_labels"}) = <<Event(c, "get_labels", "ok")>>) =>
            LET labels == call[c].labels
                existing_labels == call[c].existing_labels
                created == OfKind(c, {"create_label"})
                attach == OfKind(c, {"add_to_labels"})
            IN /\ \A i \in DOMAIN created :
                     /\ created[i].arg[2] = DEFAULT_COLOR
                     /\ created[i].arg[1] \notin existing_labels
               /\ \E n \in 0..Len(MissingOf(labels, existing_labels)) :
                     /\ Len(created) = n
                     /\ \A i \in 1..n : created[i].arg[1] = MissingOf(labels, existing_labels)[i]
               /\ attach # <<>> =>
                     /\ Len(attach) = 1
                     /\ attach[1].arg = labels
                     /\ CreatedLabels(c) = MissingOf(labels, existing_labels)
                     /\ \A i \in DOMAIN events[c] :
                           events[c][i].kind = "create_label" =>
                              \E j \in DOMAIN events[c] :
                                 i < j /\ events[c][j].kind = "add_to_labels"
               /\ Returned_ok(c) =>
                     /\ Len(attach) = 1
                     /\ \A i \in DOMAIN labels : labels[i] \in remote.labels
                     /\ remote.labels = existing_labels \cup {labels[i] : i \in DOMAIN labels}
                     /\ Len(remote.attached) >= Len(labels)
                     /\ SubSeq(remote.attached, Len(remote.attached) - Len(labels) + 1,
                               Len(remote.attached)) = labels

C19_Witness ==
    \E c \in Callers :
        /\ call[c].op = "add_pr_labels" /\ Returned_ok(c)
        /\ call[c].labels = <<"b", "a">>
        /\ call[c].existing_labels = {"b"}
        /\ CreatedLabels(c) = <<"a">>
        /\ remote.attached = <<"b", "a">>

\* C20: comparing a spec with itself returns the empty list, whichever sections
\* and fields the spec holds or omits: no category reports a warning.
C20_SameSpecNoWarning ==
    (dpc = "done" /\ old_spec = new_spec) => detected = <<>>

\* A spec with all five sections, every field set to the value whose loss is
\* reported, was compared with itself
C20_Witness ==
    /\ dpc = "done"
    /\ old_spec = new_spec
    /\ old_spec = SpecOf(SectionNames,
                         [security |-> [waf |-> [enabled |-> TRUE, mode |-> "block",
                                                 rulesets |-> <<"core-rule-set",
                                                                "rate-limiting",
                                                                "sql-injection">>],
                                        encryption |-> [atRest |-> TRUE,
                                                        inTransit |-> TRUE]],
                          compute |-> [size |-> "large",
                                       scaling |-> [min |-> 2, max |-> 10]],
                          data |-> [engine |-> "postgres", size |-> "large",
                                    highAvailability |-> TRUE, backupRetention |-> 30],
                          network |-> [vpc |-> "vpc-old", publicAccess |-> TRUE,
                                       subnets |-> <<"subnet-1", "subnet-2">>],
                          governance |-> [autoShutdown |-> [enabled |-> TRUE,
                                                            afterHours |-> 12],
                                          maxMonthlySpend |-> 50]])

----------------------------------------------------------------------------
(* Reading the list the detector returned *)

\* The field paths the detector of a category writes into its warnings
FieldPaths(name) ==
    CASE name = "security" ->
            {"spec.security.waf.enabled", "spec.security.waf.mode",
             "spec.security.waf.rulesets", "spec.security.encryption.atRest",
             "spec.security.encryption.inTransit"}
      [] name = "compute" ->
            {"spec.compute.size", "spec.compute.scaling.max", "spec.compute.scaling.min"}
      [] name = "data" ->
            {"spec.data.engine", "spec.data.size", "spec.data.highAvailability",
             "spec.data.backupRetention"}
      [] name = "network" ->
            {"spec.network.vpc", "spec.network.publicAccess", "spec.network.subnets"}
      [] OTHER ->
            {"spec.governance.autoShutdown.enabled", "spec.governance.maxMonthlySpend"}

IsOfCategory(w, name) == w.field_path \in FieldPaths(name)
OfCategory(ws, name) == SelectSeq(ws, LAMBDA w : IsOfCategory(w, name))

IsAt(w, path) == w.field_path = path
At(ws, path) == SelectSeq(ws, LAMBDA w : IsAt(w, path))

\* The sections the old and the new spec hold
OldSections == Get(old_spec, "spec", EmptyDict)
NewSections == Get(new_spec, "spec", EmptyDict)

Compared == dpc = "done"

\* C21: a category whose subtree the old spec does not hold reports no warning,
\* whatever the new spec holds in that subtree.
C21_AbsentBeforeIsSilent ==
    Compared =>
        \A name \in SectionNames :
            ~Has(OldSections, name) => OfCategory(detected, name) = <<>>

\* The upgrade direction, field by field: old and new hold the same keys and no
\* field of new is below the field of old
SameKeys(o, n) == DOMAIN o = DOMAIN n
Kept(o, n, key) == Has(o, key) => o[key] = n[key]
TurnedOn(o, n, key) == Has(o, key) => (o[key] => n[key])
NotLess(o, n, key) == Has(o, key) => o[key] <= n[key]
\* The four size tiers of the policy table, from the smallest
Tiers == <<"demo", "small", "medium", "large">>
TierNotLess(o, n) ==
    Has(o, "size") =>
        \E i, j \in DOMAIN Tiers : i <= j /\ Tiers[i] = o.size /\ Tiers[j] = n.size
ModeRaised(o, n) ==
    Has(o, "mode") => (o.mode = n.mode \/ (o.mode = "monitor" /\ n.mode = "block"))
Added(o, n, key) == SetOf(o, key) \subseteq SetOf(n, key)

Sub(d, key) == Get(d, key, EmptyDict)

SectionUpgraded(name, o, n) ==
    /\ SameKeys(o, n)
    /\ CASE name = "security" ->
                /\ SameKeys(Sub(o, "waf"), Sub(n, "waf"))
                /\ TurnedOn(Sub(o, "waf"), Sub(n, "waf"), "enabled")
                /\ ModeRaised(Sub(o, "waf"), Sub(n, "waf"))
                /\ Added(Sub(o, "waf"), Sub(n, "waf"), "rulesets")
                /\ SameKeys(Sub(o, "encryption"), Sub(n, "encryption"))
                /\ TurnedOn(Sub(o, "encryption"), Sub(n, "encryption"), "atRest")
                /\ TurnedOn(Sub(o, "encryption"), Sub(n, "encryption"), "inTransit")
         [] name = "compute" ->
                /\ TierNotLess(o, n)
                /\ SameKeys(Sub(o, "scaling"), Sub(n, "scaling"))
                /\ NotLess(Sub(o, "scaling"), Sub(n, "scaling"), "min")
                /\ NotLess(Sub(o, "scaling"), Sub(n, "scaling"), "max")
         [] name = "data" ->
                /\ Kept(o, n, "engine")
                /\ TierNotLess(o, n)
                /\ TurnedOn(o, n, "highAvailability")
                /\ NotLess(o, n, "backupRetention")
         [] name = "network" ->
                /\ Kept(o, n, "vpc")
                /\ Kept(o, n, "publicAccess")
                /\ Added(o, n, "subnets")
         [] OTHER ->
                /\ Kept(o, n, "autoShutdown")
                /\ NotLess(o, n, "maxMonthlySpend")

Upgraded ==
    /\ SameKeys(OldSections, NewSections)
    /\ \A name \in DOMAIN OldSections :
           SectionUpgraded(name, OldSections[name], NewSections[name])

Members(d, key) == IF Has(d, key) THEN {d[key][i] : i \in DOMAIN d[key]} ELSE {}

\* The members of the old set that the new set lacks
RemovedRulesets ==
    Members(Sub(Section(old_spec, "security"), "waf"), "rulesets")
    \ Members(Sub(Section(new_spec, "security"), "waf"), "rulesets")
RemovedSubnets ==
    Members(Section(old_spec, "network"), "subnets")
    \ Members(Section(new_spec, "network"), "subnets")

\* Nothing removed: no warning at the path; otherwise one WARNING naming all of them
OneWarningNaming(removed, path) ==
    IF removed = {}
    THEN At(detected, path) = <<>>
    ELSE /\ Len(At(detected, path)) = 1
         /\ At(detected, path)[1].severity = "warning"
         /\ At(detected, path)[1].message[2] = removed

\* C23: for WAF rulesets and for subnets, members of the old set missing from the
\* new one yield exactly one WARNING for the field, naming every removed member,
\* and no removed member yields no warning for the field.
C23_OneWarningPerSet ==
    Compared =>
        /\ OneWarningNaming(RemovedRulesets, "spec.security.waf.rulesets")
        /\ OneWarningNaming(RemovedSubnets, "spec.network.subnets")

\* A set of three rulesets was cut to one: two members were removed
C23_Witness ==
    /\ Compared
    /\ RemovedRulesets = {"rate-limiting", "sql-injection"}
    /\ Members(Sub(Section(new_spec, "security"), "waf"), "rulesets") = {"core-rule-set"}
    /\ Len(At(detected, "spec.security.waf.rulesets")) = 1

OldData == Section(old_spec, "data")
NewData == Section(new_spec, "data")

\* The engine of a data subtree is a real one: set, and not the "none" sentinel
RealEngine(d) == Has(d, "engine") /\ d.engine \notin {"", "none"}

EngineWarnings == At(detected, "spec.data.engine")

OneCritical(ws) == Len(ws) = 1 /\ ws[1].severity = "critical"

\* C24: no engine warning when the old engine is absent or "none"; with a real
\* old engine, a new engine "none" yields exactly one CRITICAL warning carrying
\* the irreversibility notice, a different real engine yields exactly one
\* CRITICAL warning, and the same engine yields none.
C24_EngineTransitions ==
    Compared =>
        /\ ~RealEngine(OldData) => EngineWarnings = <<>>
        /\ (RealEngine(OldData) /\ Has(NewData, "engine") /\ NewData.engine = "none") =>
               /\ OneCritical(EngineWarnings)
               /\ \E i \in DOMAIN EngineWarnings[1].message :
                      EngineWarnings[1].message[i] = "(irreversible!)"
        /\ (RealEngine(OldData) /\ RealEngine(NewData)
                /\ NewData.engine # OldData.engine) =>
               OneCritical(EngineWarnings)
        /\ (RealEngine(OldData) /\ RealEngine(NewData)
                /\ NewData.engine = OldData.engine) =>
               EngineWarnings = <<>>

\* A postgres engine was set to "none" and one CRITICAL warning came back
C24_Witness ==
    /\ Compared
    /\ RealEngine(OldData)
    /\ OldData.engine = "postgres"
    /\ NewData = [engine |-> "none"]
    /\ OneCritical(EngineWarnings)

OldScaling == Sub(Section(old_spec, "compute"), "scaling")
NewScaling == Sub(Section(new_spec, "compute"), "scaling")

\* The two scaling bounds with the field path of their warning
ScalingBounds ==
    {<<"min", "spec.compute.scaling.min">>, <<"max", "spec.compute.scaling.max">>}

\* The bound is set on both sides and the new value is lower
Lowered(key) ==
    /\ Has(OldScaling, key)
    /\ Has(NewScaling, key)
    /\ NewScaling[key] < OldScaling[key]

OneWarning(ws) == Len(ws) = 1 /\ ws[1].severity = "warning"

\* C25: a lower new scaling minimum yields one WARNING for the minimum and a lower
\* new maximum one WARNING for the maximum, each decided on its own, for every
\* pair of values including a reduction to 0.
C25_ScalingReductionsWarned ==
    Compared =>
        \A b \in ScalingBounds :
            IF Lowered(b[1])
            THEN OneWarning(At(detected, b[2]))
            ELSE At(detected, b[2]) = <<>>

\* The same, for reductions to a value other than 0
C25_NonZeroReductionsWarned ==
    Compared =>
        \A b \in ScalingBounds :
            IF Lowered(b[1]) /\ NewScaling[b[1]] # 0
            THEN OneWarning(At(detected, b[2]))
            ELSE At(detected, b[2]) = <<>>

\* The severity the policy gives a finding at a field path
SeverityAt(path) ==
    IF path = "spec.data.engine" THEN "critical"
    ELSE IF path \in FieldPaths("governance") THEN "info"
    ELSE "warning"

\* C26: a CRITICAL warning always concerns the data engine (spec.data.engine);
\* governance findings are INFO and every other finding is WARNING.
C26_CriticalOnlyForEngine ==
    Compared =>
        \A i \in DOMAIN detected :
            /\ detected[i].severity = SeverityAt(detected[i].field_path)
            /\ detected[i].severity = "critical" =>
                   detected[i].field_path = "spec.data.engine"

\* An engine change came back CRITICAL together with three WARNINGs of the data
\* category
C26_Witness ==
    /\ Compared
    /\ Len(detected) = 4
    /\ detected[1].severity = "critical"
    /\ \A i \in 2..4 : detected[i].severity = "warning"

\* The place of a category in the fixed order of the detector
CategoryOrder == <<"security", "compute", "data", "network", "governance">>

CategoryRank(w) == CHOOSE i \in DOMAIN CategoryOrder : IsOfCategory(w, CategoryOrder[i])

\* No warning of a later category precedes a warning of an earlier one
InCategoryOrder(ws) ==
    \A i, j \in DOMAIN ws : i < j => CategoryRank(ws[i]) <= CategoryRank(ws[j])

\* C27: the list the detector returns holds the warnings of security, compute,
\* data, network and governance in that order, and the success response of the
\* orchestrator lists the same warnings in the same order.
C27_WarningsInCategoryOrder ==
    \A r \in Reqs :
        /\ InCategoryOrder(warnings[r])
        /\ (pc[r] = "done" /\ Answer(r).statusCode = 200) =>
               /\ Answer(r).warnings = warnings[r]
               /\ InCategoryOrder(Answer(r).warnings)

\* A request succeeded whose new spec lowered fields of all five sections
C27_Witness ==
    \E r \in Reqs :
        /\ pc[r] = "done"
        /\ Answer(r).statusCode = 200
        /\ \A name \in SectionNames : OfCategory(Answer(r).warnings, name) # <<>>

----------------------------------------------------------------------------
(* Reading what the parser did *)

Parsed == ppc = "done"
Did(step) == \E i \in DOMAIN steps : steps[i] = step

\* The one error of a rejected text is a security violation with this pattern
RejectedFor(pattern) ==
    /\ ~result.is_valid
    /\ Len(result.errors) = 1
    /\ result.errors[1].kind = "SecurityError"
    /\ result.errors[1].pattern = pattern

\* The checks that ran are an initial part of size check, tag scan, parse
InCheckOrder ==
    \E n \in 0..3 : SubSeq(steps, 1, Len(steps)) \in
        {SubSeq(<<"size_check", "tag_scan", "safe_load">>, 1, n),
         <<"size_check", "tag_scan", "safe_load", "iter_errors">>}

\* C28: the checks run in the order size, dangerous tag, parse: a text of more
\* than 1 MiB (1,048,577 bytes or more) is rejected as the security violation
\* 'oversized' before the tag scan and the parser run, a text of at most 1 MiB
\* with a dangerous tag is rejected as a security violation of that tag, and
\* the parser runs only on a text that passed both checks.
C28_SizeThenTagThenParse ==
    /\ InCheckOrder
    /\ (Parsed /\ ByteSize(document) > MAX_DOC_SIZE) =>
           (RejectedFor("oversized") /\ ~Did("tag_scan") /\ ~Did("safe_load"))
    /\ (Parsed /\ ByteSize(document) <= MAX_DOC_SIZE
            /\ document.tags \cap dangerous_tags # {}) =>
           (\E tag \in document.tags : RejectedFor(tag)) /\ ~Did("safe_load")
    /\ Did("safe_load") =>
           /\ ByteSize(document) <= MAX_DOC_SIZE
           /\ document.tags \cap dangerous_tags = {}

\* The same with the size of a text taken as its number of characters
C28_SizeInCharacters ==
    /\ InCheckOrder
    /\ (Parsed /\ LenOf(document) > MAX_DOC_SIZE) =>
           (RejectedFor("oversized") /\ ~Did("tag_scan") /\ ~Did("safe_load"))
    /\ (Parsed /\ LenOf(document) <= MAX_DOC_SIZE
            /\ document.tags \cap dangerous_tags # {}) =>
           (\E tag \in document.tags : RejectedFor(tag)) /\ ~Did("safe_load")
    /\ Did("safe_load") =>
           /\ LenOf(document) <= MAX_DOC_SIZE
           /\ document.tags \cap dangerous_tags = {}

\* The error parse_yaml raises on a text, none if the text parses to an object
ParseFailure(text) ==
    IF LenOf(text) > MAX_DOC_SIZE THEN <<"SecurityError", "Document too large">>
    ELSE IF text.tags \cap dangerous_tags # {}
         THEN <<"SecurityError", "Dangerous YAML tag detected">>
    ELSE CASE text.yaml = "syntax_error" -> <<"ParseError", "str(YAMLError)">>
           [] text.yaml = "slow" -> <<"SecurityError", "Parsing timeout">>
           [] text.yaml = "empty" -> <<"ParseError", "Empty document">>
           [] text.yaml = "scalar" -> <<"ParseError", "Root must be object">>
           [] OTHER -> <<>>

\* C29: when parsing fails (size, dangerous tag, syntax, empty document, root not
\* an object) parse_and_validate returns (false, empty document, the one error)
\* and no schema validation runs; otherwise schema validation runs, valid is true
\* exactly when the error list is empty, and the document returned is the parsed
\* one when valid and the empty one when not.
C29_ParseThenValidate ==
    Parsed =>
        IF ParseFailure(document) # <<>>
        THEN /\ ~result.is_valid
             /\ result.spec = "empty"
             /\ Len(result.errors) = 1
             /\ <<result.errors[1].kind, result.errors[1].message>> = ParseFailure(document)
             /\ ~Did("iter_errors")
        ELSE /\ Did("iter_errors")
             /\ result.is_valid <=> (result.errors = <<>>)
             /\ result.is_valid <=> (document.violations = 0)
             /\ result.spec = IF result.is_valid THEN "parsed" ELSE "empty"

\* The empty text was answered (false, {}, [Empty document])
C29_Witness ==
    /\ Parsed
    /\ document.chars = 0
    /\ result = [is_valid |-> FALSE, spec |-> "empty",
                 errors |-> <<ParseError("Empty document")>>]

----------------------------------------------------------------------------
(* The branch of a successful request *)

\* The create_branch calls of request r that the remote accepted, and all of them
IsAccepted(e) == e.res = "ok"
BranchesCreatedBy(r) == SelectSeq(EntriesOf(r, "create_branch"), LAMBDA e : IsAccepted(e))
Retried(r) == Len(EntriesOf(r, "create_branch")) = 2

\* C30: the branch_name of a success response is the branch this request created;
\* the commit was written to that branch and the pull request has it as head;
\* after the collision retry it is the suffixed name, not the timestamp name.
C30_ResponseNamesCreatedBranch ==
    \A r \in Reqs :
        Succeeds(r) =>
            /\ Len(BranchesCreatedBy(r)) = 1
            /\ BranchesCreatedBy(r)[1].arg = Answer(r).branch_name
            /\ Answer(r).branch_name \in branches
            /\ Len(CommitsBy(r)) >= 1
            /\ \A i \in DOMAIN CommitsBy(r) :
                   CommitsBy(r)[i].branch = Answer(r).branch_name
            /\ \E p \in PullsBy(r) :
                   p.number = Answer(r).pr_number /\ p.head = Answer(r).branch_name
            /\ Retried(r) =>
                   /\ Answer(r).branch_name # EntriesOf(r, "create_branch")[1].arg
                   /\ Answer(r).branch_name
                          \in {SuffixedName(EntriesOf(r, "create_branch")[1].arg[1], suffix) :
                                   suffix \in SuffixSamples}

\* A request succeeded after the collision retry
C30_Witness ==
    \E r \in Reqs :
        /\ Succeeds(r)
        /\ Retried(r)
        /\ EntriesOf(r, "create_branch")[1].res = "BranchExistsError"
        /\ Len(CommitsBy(r)) = 1

====
